---- MODULE Spec2Model ----
(***************************************************************************)
(* CredentialLake: the cooperative job state machine.                      *)
(*                                                                         *)
(* One ScanJob row (backend/models/scan_job.py), the RQ work queue, the    *)
(* job routes (backend/routes/jobs.py, scan_intelx.py, scan_file.py) and   *)
(* the worker functions of backend/workers/scan_worker.py.  The three      *)
(* worker functions process_intelx_scan, process_multi_domain_scan and     *)
(* process_file_scan have the same phase structure and differ only in the  *)
(* collection step, so they are modelled by one family of Worker_* steps   *)
(* indexed by the job type.                                                *)
(*                                                                         *)
(* Every worker invocation owns a SQLAlchemy session (SessionLocal(),      *)
(* expire_on_commit left at its default).  db.query(ScanJob)...first()     *)
(* without populate_existing() does not overwrite the attributes of an     *)
(* instance that is already in the session and not expired, so a worker    *)
(* sees the row as it was at its last refresh; db.commit() expires the     *)
(* instance, and the UPDATE of a commit carries only the attributes whose  *)
(* value differs from the loaded one.  The field `cache` of an invocation  *)
(* is that instance.                                                       *)
(***************************************************************************)
EXTENDS Integers, FiniteSets, Sequences, Bags, TLC

\* ---- bounds of the model ------------------------------------------------
MaxInvocations == 2   \* worker invocations ever enqueued for the job
RqWorkers == 2        \* RQ worker processes taking work units from the queue
MaxTasks == 2         \* domains (pool tasks) of a multi-domain scan
MaxBatch == 1         \* lines that the collection of one invocation returns
MaxJobs == 2          \* jobs whose workers upsert into the shared store
MaxCreds == 2         \* credentials of one bulk_upsert_credentials batch
MaxLines == 2         \* lines of one parse_credentials_from_list call
MaxThreads == 2       \* pool threads that call one stop-check callback
MaxClock == 10        \* last value of the monotonic clock, in tenths of a second

\* The job state machine.
VARIABLES job, queue, inv, creating, resp

\* The credential store and the bulk upserts of the workers.
VARIABLES credentials, job_credentials, bulk, upserts, overlapped

\* One CredentialParser and its call of parse_credentials_from_list.
VARIABLES credential_lines, line_num, seen_credentials, parsed_credentials, parsed,
          unique_count, parsing

\* One call of a domain function: its name, arguments and result.
VARIABLES lookup

\* The monotonic clock, the closure variable of one stop-check callback, the
\* calls of the pool threads in progress and the reads of the job row so far.
VARIABLES clock, last_check, stop_check, reads

\* One call of process_multiple_domains: the futures of its pool tasks, its
\* two accumulators and its position.
VARIABLES futures, all_credentials, all_domains, collection

jobVars == <<job, queue, inv, creating, resp>>

dedupVars == <<credentials, job_credentials, bulk, upserts, overlapped>>

parserVars ==
    <<credential_lines, line_num, seen_credentials, parsed_credentials, parsed,
      unique_count, parsing>>

domainVars == <<lookup>>

throttleVars == <<clock, last_check, stop_check, reads>>

fanInVars == <<futures, all_credentials, all_domains, collection>>

vars == <<jobVars, dedupVars, parserVars, domainVars, throttleVars, fanInVars>>

\* What a step of the job state machine leaves alone.
notJob == <<dedupVars, parserVars, domainVars, throttleVars, fanInVars>>

\* What a step of an upsert leaves alone.
notDedup == <<jobVars, parserVars, domainVars, throttleVars, fanInVars>>

\* What the steps of the parser leave alone.
notParser == <<jobVars, dedupVars, domainVars, throttleVars, fanInVars>>

\* What the domain functions leave alone.
notDomain == <<jobVars, dedupVars, parserVars, throttleVars, fanInVars>>

\* What the stop-check callback leaves alone.
notThrottle == <<jobVars, dedupVars, parserVars, domainVars, fanInVars>>

\* What the multi-domain collection leaves alone.
notFanIn == <<jobVars, dedupVars, parserVars, domainVars, throttleVars>>

Invocations == 1..MaxInvocations

JobTypes == {"intelx_single", "intelx_multi", "file"}

terminal == {"completed", "failed", "cancelled"}

non_cancellable == {"parsing", "upserting"}

non_pausable == {"parsing", "upserting", "queued"}

\* The ScanJob row before the scan is requested.  rows is the number of
\* JobCredential rows of the job (primary key job_id, credential_id);
\* queued_cancel records that a cancel request found the job queued and
\* was_cancelling that one has set its status to cancelling.
NoJob ==
    [exists |-> FALSE, job_type |-> "none", status |-> "none", rq_job_id |-> 0,
     cancel_requested |-> FALSE, pause_requested |-> FALSE,
     completed_at |-> FALSE, error_message |-> FALSE,
     total_raw |-> 0, total_parsed |-> 0, total_new |-> 0, total_duplicates |-> 0,
     rows |-> 0, queued_cancel |-> FALSE, was_cancelling |-> FALSE]

\* The columns of the row that a worker's session keeps loaded.
Row == [status |-> job.status, cancel |-> job.cancel_requested, pause |-> job.pause_requested]

\* The answer of the last request: the route and its HTTP status code.
Response(route, code) == [route |-> route, code |-> code]

NoRow == [status |-> "none", cancel |-> FALSE, pause |-> FALSE]

\* An invocation that has not been enqueued.  While it executes, sigs, exc
\* and wrote record the stop signals its callback raised, whether a task of
\* its collection raised an ordinary exception, and the statuses it assigned;
\* credential_lines and parsed_count are len(credential_lines) and the
\* parsed_count that parse_raw_lines returned.
NoInvocation ==
    [pc |-> "none", send_alert |-> FALSE, cache |-> NoRow, expired |-> TRUE,
     running |-> 0, firstExc |-> "none",
     sigs |-> {}, exc |-> FALSE, wrote |-> {},
     credential_lines |-> 0, parsed_count |-> 0]

\* job_queue.enqueue(process_..., job_id, ..., send_alert)
Enqueued(a) == [NoInvocation EXCEPT !.pc = "queued", !.send_alert = a]

\* No scan has been requested.
JobInit ==
    /\ job = NoJob
    /\ queue = {}
    /\ inv = [i \in Invocations |-> NoInvocation]
    /\ creating = FALSE
    /\ resp = Response("none", 0)

\* ---- scan creation ------------------------------------------------------
\* create_intelx_scan / create_multi_domain_scan / create_file_scan: the row
\* is committed with status queued, then the worker function is enqueued.
create_scan(t, a) ==
    /\ ~job.exists
    /\ job' = [NoJob EXCEPT !.exists = TRUE, !.job_type = t, !.status = "queued"]
    /\ inv' = [inv EXCEPT ![1] = Enqueued(a)]
    /\ queue' = {1}
    /\ creating' = TRUE
    /\ resp' = Response("create", 200)
    /\ UNCHANGED notJob

\* The second commit of the creating route: job_ref.rq_job_id = rq_id.
persist_rq_job_id ==
    /\ creating
    /\ job' = [job EXCEPT !.rq_job_id = 1]
    /\ creating' = FALSE
    /\ UNCHANGED <<queue, inv, resp>>
    /\ UNCHANGED notJob

\* ---- the job routes ----------------------------------------------------
\* Invocations ever enqueued (queued, removed, running or finished).
Enqueues == {i \in Invocations : inv[i].pc # "none"}

\* RQ removes a queued work unit: it is never handed to a worker.
Removed(removed) ==
    [i \in Invocations |->
        IF removed /\ i = job.rq_job_id /\ i \in queue
        THEN [inv[i] EXCEPT !.pc = "removed"]
        ELSE inv[i]]

\* cancel_job without the non_cancellable check of its first lines: a request
\* that finds the job parsing or upserting records cancel_requested.
cancel_job_NoPhaseCheck ==
    /\ job.exists
    /\ UNCHANGED creating
    /\ IF job.status \in terminal
       THEN /\ resp' = Response("cancel", 200)
            /\ UNCHANGED <<job, queue, inv>>
       ELSE IF job.status = "queued" /\ job.rq_job_id # 0
       THEN \E removed \in BOOLEAN :
            /\ queue' = IF removed THEN queue \ {job.rq_job_id} ELSE queue
            /\ inv' = Removed(removed)
            /\ job' = [job EXCEPT !.cancel_requested = TRUE, !.status = "cancelled",
                                  !.completed_at = TRUE, !.queued_cancel = TRUE]
            /\ resp' = Response("cancel", 200)
       ELSE IF job.status \in {"running", "collecting"}
       THEN /\ job' = [job EXCEPT !.cancel_requested = TRUE, !.status = "cancelling",
                                  !.was_cancelling = TRUE]
            /\ resp' = Response("cancel", 200)
            /\ UNCHANGED <<queue, inv>>
       ELSE /\ job' = [job EXCEPT !.cancel_requested = TRUE]
            /\ resp' = Response("cancel", 200)
            /\ UNCHANGED <<queue, inv>>
    /\ UNCHANGED notJob

\* POST /api/jobs/{job_id}/cancel
cancel_job ==
    /\ job.exists
    /\ UNCHANGED creating
    /\ IF job.status \in non_cancellable
       THEN /\ resp' = Response("cancel", 409)
            /\ UNCHANGED <<job, queue, inv>>
       ELSE IF job.status \in terminal
       THEN /\ resp' = Response("cancel", 200)
            /\ UNCHANGED <<job, queue, inv>>
       ELSE IF job.status = "queued" /\ job.rq_job_id # 0
       THEN \E removed \in BOOLEAN :
            /\ queue' = IF removed THEN queue \ {job.rq_job_id} ELSE queue
            /\ inv' = Removed(removed)
            /\ job' = [job EXCEPT !.cancel_requested = TRUE, !.status = "cancelled",
                                  !.completed_at = TRUE, !.queued_cancel = TRUE]
            /\ resp' = Response("cancel", 200)
       ELSE IF job.status \in {"running", "collecting"}
       THEN /\ job' = [job EXCEPT !.cancel_requested = TRUE, !.status = "cancelling",
                                  !.was_cancelling = TRUE]
            /\ resp' = Response("cancel", 200)
            /\ UNCHANGED <<queue, inv>>
       ELSE /\ job' = [job EXCEPT !.cancel_requested = TRUE]
            /\ resp' = Response("cancel", 200)
            /\ UNCHANGED <<queue, inv>>
    /\ UNCHANGED notJob

\* POST /api/jobs/{job_id}/pause
pause_job ==
    /\ job.exists
    /\ UNCHANGED <<queue, inv, creating>>
    /\ IF job.status \in non_pausable
       THEN resp' = Response("pause", 409) /\ UNCHANGED job
       ELSE IF job.status \in terminal
       THEN resp' = Response("pause", 200) /\ UNCHANGED job
       ELSE IF job.status = "paused"
       THEN resp' = Response("pause", 200) /\ UNCHANGED job
       ELSE IF job.status = "collecting"
       THEN /\ job' = [job EXCEPT !.pause_requested = TRUE, !.status = "paused"]
            /\ resp' = Response("pause", 200)
       ELSE resp' = Response("pause", 409) /\ UNCHANGED job
    /\ UNCHANGED notJob

\* POST /api/jobs/{job_id}/resume.  The flag and the status are committed
\* before the job type is looked at; a file scan then answers 501 and
\* enqueues nothing.
resume_job ==
    /\ job.exists
    /\ UNCHANGED creating
    /\ IF job.status # "paused"
       THEN /\ resp' = Response("resume", 409)
            /\ UNCHANGED <<job, queue, inv>>
       ELSE IF job.job_type \in {"intelx_single", "intelx_multi"}
       THEN \E n \in Invocations :
            /\ n = Cardinality(Enqueues) + 1
            /\ inv' = [inv EXCEPT ![n] = Enqueued(FALSE)]
            /\ queue' = queue \cup {n}
            /\ job' = [job EXCEPT !.pause_requested = FALSE, !.status = "collecting",
                                  !.rq_job_id = n]
            /\ resp' = Response("resume", 200)
       ELSE /\ job' = [job EXCEPT !.pause_requested = FALSE, !.status = "collecting"]
            /\ resp' = Response("resume", IF job.job_type = "file" THEN 501 ELSE 200)
            /\ UNCHANGED <<queue, inv>>
    /\ UNCHANGED notJob

\* ---- the worker ---------------------------------------------------------
\* db.query(ScanJob).filter(ScanJob.id == job_id).first(): an instance that
\* is loaded and not expired keeps its attributes, an expired one is refreshed.
Query(i) == IF inv[i].expired THEN Row ELSE inv[i].cache

\* job.status = s followed by db.commit(): the UPDATE carries the status only
\* when it differs from the loaded value (an expired attribute always does).
Commit(i, s) == IF inv[i].expired \/ inv[i].cache.status # s THEN s ELSE job.status

\* db.commit() expires every instance of the session.
Expire(r) == [r EXCEPT !.cache = NoRow, !.expired = TRUE]

\* The worker function returns (finally: db.close()) and RQ records the
\* work unit as finished, or an exception leaves it and RQ records it as failed.
Return(r) == [NoInvocation EXCEPT !.pc = "done"]

Crash(r) == [NoInvocation EXCEPT !.pc = "crashed"]

\* The invocations that an RQ worker process is executing.
Executing ==
    {i \in Invocations : inv[i].pc \notin {"none", "queued", "removed", "done", "crashed"}}

\* An RQ worker process takes the work unit from the queue and calls the
\* worker function: db = SessionLocal(); job = db.query(ScanJob)...first()
Worker_Start(i) ==
    /\ i \in queue
    /\ Cardinality(Executing) < RqWorkers
    /\ queue' = queue \ {i}
    /\ inv' = [inv EXCEPT ![i].pc = "enter", ![i].cache = Row, ![i].expired = FALSE]
    /\ UNCHANGED <<job, creating, resp>>
    /\ UNCHANGED notJob

\* job.status = 'collecting'; job.started_at = now; db.commit()
Worker_EnterCollecting(i) ==
    /\ inv[i].pc = "enter"
    /\ job' = [job EXCEPT !.status = Commit(i, "collecting")]
    /\ inv' = [inv EXCEPT ![i] = Expire([@ EXCEPT !.pc = "entrycheck",
                                                  !.wrote = @ \cup {"collecting"}])]
    /\ UNCHANGED <<queue, creating, resp>>
    /\ UNCHANGED notJob

\* The units of the collection still running: one inline search for a
\* single scan, one pool task per domain for a multi-domain scan, the file
\* read for a file scan.
StartTasks == IF job.job_type = "intelx_multi" THEN MaxTasks ELSE 1

\* The entry check without its cancel_requested test.
Worker_EntryCheck_NoCancel(i) ==
    /\ inv[i].pc = "entrycheck"
    /\ LET c == Query(i) IN
       inv' = [inv EXCEPT ![i].cache = c, ![i].expired = FALSE,
                          ![i].pc = IF c.pause THEN "entry_pause" ELSE "collect",
                          ![i].running = IF c.pause THEN 0 ELSE StartTasks]
    /\ UNCHANGED <<job, queue, creating, resp>>
    /\ UNCHANGED notJob

\* The re-read of the row right after entering collecting.
Worker_EntryCheck(i) ==
    /\ inv[i].pc = "entrycheck"
    /\ LET c == Query(i) IN
       inv' = [inv EXCEPT ![i].cache = c, ![i].expired = FALSE,
                          ![i].pc = IF c.cancel THEN "entry_cancel"
                                    ELSE IF c.pause THEN "entry_pause"
                                    ELSE "collect",
                          ![i].running = IF c.cancel \/ c.pause THEN 0 ELSE StartTasks]
    /\ UNCHANGED <<job, queue, creating, resp>>
    /\ UNCHANGED notJob

\* job.status = 'cancelled'; job.completed_at = now; db.commit(); return
CommitCancelled(i) ==
    /\ job' = [job EXCEPT !.status = Commit(i, "cancelled"), !.completed_at = TRUE]
    /\ inv' = [inv EXCEPT ![i] = Return(@)]
    /\ UNCHANGED <<queue, creating, resp>>

\* job.status = 'paused'; db.commit(); return
CommitPaused(i) ==
    /\ job' = [job EXCEPT !.status = Commit(i, "paused")]
    /\ inv' = [inv EXCEPT ![i] = Return(@)]
    /\ UNCHANGED <<queue, creating, resp>>

\* bulk_upsert_credentials leaves the JobCredential rows of n credentials.
Rows(n) == IF n > job.rows THEN n ELSE job.rows

\* except Exception as e: the handler queries the row on the same session
\* and commits status failed, error_message and completed_at.  On a session
\* whose flush failed the query itself raises, nothing more is written and
\* the exception leaves the worker function.
Except(i, sessionOk, n) ==
    /\ IF sessionOk
       THEN /\ job' = [job EXCEPT !.status = Commit(i, "failed"), !.error_message = TRUE,
                                  !.completed_at = TRUE, !.rows = Rows(n)]
            /\ inv' = [inv EXCEPT ![i] = Return(@)]
       ELSE /\ job' = [job EXCEPT !.rows = Rows(n)]
            /\ inv' = [inv EXCEPT ![i] = Crash(@)]
    /\ UNCHANGED <<queue, creating, resp>>

Worker_EntryCancel(i) == inv[i].pc = "entry_cancel" /\ CommitCancelled(i) /\ UNCHANGED notJob

Worker_EntryPause(i) == inv[i].pc = "entry_pause" /\ CommitPaused(i) /\ UNCHANGED notJob

\* ---- collecting ---------------------------------------------------------
\* The exception that leaves the collection: the one of the first task to
\* complete with an exception (as_completed re-raises it and drops the rest).
First(r, e) == IF r.firstExc = "none" THEN e ELSE r.firstExc

\* _should_stop(phase) when the throttle lets it through: expire_all(), a
\* populate_existing() read of the row, then CancelRequested before
\* PauseRequested.  A throttled call returns without touching anything and
\* is a stuttering step.  A file scan has no stop-check callback.
should_stop(i) ==
    /\ inv[i].pc = "collect"
    /\ inv[i].running > 0
    /\ job.job_type # "file"
    /\ LET sig == IF job.cancel_requested THEN "cancel"
                  ELSE IF job.pause_requested THEN "pause" ELSE "none"
       IN inv' = [inv EXCEPT ![i] =
                    IF sig = "none"
                    THEN [@ EXCEPT !.cache = Row, !.expired = FALSE]
                    ELSE [@ EXCEPT !.cache = Row, !.expired = FALSE,
                                   !.running = @ - 1, !.sigs = @ \cup {sig},
                                   !.firstExc = First(inv[i], sig)]]
    /\ UNCHANGED <<job, queue, creating, resp>>
    /\ UNCHANGED notJob

\* A search (or the file read) returns its lines.
Task_Finish(i) ==
    /\ inv[i].pc = "collect"
    /\ inv[i].running > 0
    /\ inv' = [inv EXCEPT ![i].running = @ - 1]
    /\ UNCHANGED <<job, queue, creating, resp>>
    /\ UNCHANGED notJob

\* A search (or the file read) raises an ordinary exception; with a
\* stop-check callback configured the client re-raises it.
Task_Error(i) ==
    /\ inv[i].pc = "collect"
    /\ inv[i].running > 0
    /\ inv' = [inv EXCEPT ![i].running = @ - 1, ![i].exc = TRUE,
                          ![i].firstExc = First(inv[i], "error")]
    /\ UNCHANGED <<job, queue, creating, resp>>
    /\ UNCHANGED notJob

\* The collection has returned n lines.  The final cancel/pause check before
\* parsing, made on the instance the session holds, and the commit that
\* follows it.
Boundary(i) ==
    LET c == Query(i) IN
    IF c.cancel THEN CommitCancelled(i)
    ELSE IF c.pause THEN CommitPaused(i)
    ELSE /\ job' = [job EXCEPT !.status = Commit(i, "parsing")]
         /\ \E n \in 0..MaxBatch :
              inv' = [inv EXCEPT ![i] = Expire([@ EXCEPT !.pc = "parsing",
                                                         !.wrote = @ \cup {"parsing"},
                                                         !.credential_lines = n])]
         /\ UNCHANGED <<queue, creating, resp>>

\* The collection returns or raises once every task has finished (the pool
\* is shut down with wait=True before an exception leaves the with block):
\* except CancelRequested, except PauseRequested, except Exception, or the
\* boundary check.  None of them reads the database before its commit.
Worker_EndCollecting(i) ==
    /\ inv[i].pc = "collect"
    /\ inv[i].running = 0
    /\ CASE inv[i].firstExc = "cancel" -> CommitCancelled(i)
         [] inv[i].firstExc = "pause" -> CommitPaused(i)
         [] inv[i].firstExc = "error" -> Except(i, TRUE, 0)
         [] OTHER -> Boundary(i)
    /\ UNCHANGED notJob

\* ---- parsing, upserting, alert ------------------------------------------
\* The parsed_count that parse_credentials_from_list can return for n lines
\* if it could count a line twice.
ParsedCounts_Twice(n) == 0..(2 * n)

\* The parsed_count that parse_credentials_from_list can return for n lines:
\* the length of its output list, to which a line adds one record or none.
ParsedCounts(n) == 0..n

\* ParserService.parse_raw_lines(credential_lines) is called without a
\* stop-check callback; then job.status = 'upserting'; db.commit()
Worker_Parse(i) ==
    /\ inv[i].pc = "parsing"
    /\ job' = [job EXCEPT !.status = Commit(i, "upserting")]
    /\ \E n \in ParsedCounts(inv[i].credential_lines) :
         inv' = [inv EXCEPT ![i] = Expire([@ EXCEPT !.pc = "upserting",
                                                    !.wrote = @ \cup {"upserting"},
                                                    !.parsed_count = n])]
    /\ UNCHANGED <<queue, creating, resp>>
    /\ UNCHANGED notJob

\* An exception while parsing.
Parse_Raises(i) == inv[i].pc = "parsing" /\ Except(i, TRUE, 0) /\ UNCHANGED notJob

\* bulk_upsert_credentials has returned new_count = new and duplicate_count
\* = n - new.  job.total_* = ...; job.status = 'completed'; job.completed_at
\* = now; commit: the instance is expired since the last commit, so the
\* UPDATE carries all four totals.
Complete(i, n, new) ==
    /\ job' = [job EXCEPT !.status = Commit(i, "completed"), !.completed_at = TRUE,
                          !.total_raw = inv[i].credential_lines,
                          !.total_parsed = inv[i].parsed_count,
                          !.total_new = new, !.total_duplicates = n - new,
                          !.rows = Rows(n)]
    /\ inv' = [inv EXCEPT ![i] =
                 IF inv[i].send_alert
                 THEN Expire([@ EXCEPT !.pc = "alert", !.wrote = @ \cup {"completed"}])
                 ELSE Return(@)]
    /\ UNCHANGED <<queue, creating, resp>>

\* DedupService.bulk_upsert_credentials(db, parsed_creds, job_id) raises
\* after the rows of n credentials: an ordinary exception, or a failed flush
\* (IntegrityError, DataError) that leaves the session refusing further
\* statements until db.rollback().
Upsert_Raises(i) ==
    /\ inv[i].pc = "upserting"
    /\ \E n \in 0..inv[i].parsed_count, sessionOk \in BOOLEAN : Except(i, sessionOk, n)
    /\ UNCHANGED notJob

\* DedupService.bulk_upsert_credentials(db, parsed_creds, job_id) commits
\* the rows of the n parsed credentials that have all three fields, new of
\* them not seen before, and returns; the job is completed.
Worker_Upsert(i) ==
    /\ inv[i].pc = "upserting"
    /\ \E n \in 0..inv[i].parsed_count, new \in 0..MaxBatch :
         new <= n /\ Complete(i, n, new)
    /\ UNCHANGED notJob

\* if send_alert: ... AlertService.send_notification(...) returns.
Worker_Alert(i) ==
    /\ inv[i].pc = "alert"
    /\ inv' = [inv EXCEPT ![i] = Return(@)]
    /\ UNCHANGED <<job, queue, creating, resp>>
    /\ UNCHANGED notJob

\* An exception in the alert step, after the job was committed completed.
Alert_Raises(i) == inv[i].pc = "alert" /\ Except(i, TRUE, 0) /\ UNCHANGED notJob

\* ---- the credential store (services/dedup_service.py) --------------------
\* Every job has one worker, and every worker its own database session on
\* the shared store (PostgreSQL, READ COMMITTED).  db.commit() makes the
\* writes of a session visible to the others; a statement that violates a
\* primary key or a unique constraint raises IntegrityError.
Jobs == 1..MaxJobs

\* One parsed credential, as the parser hands it to the bulk upsert.
Cred(u, n, p) == [url |-> u, username |-> n, password |-> p]

\* The parsed credentials of the model: two complete triples, one without a
\* url and one without a password.
Parsed ==
    {Cred("https://a.com", "bob", "pw1"), Cred("https://b.org", "amy@b.org", "pw2"),
     Cred("", "bob", "pw1"), Cred("https://a.com", "bob", "")}

\* if url and username and password:
IsComplete(c) == c.url # "" /\ c.username # "" /\ c.password # ""

Triples == {c \in Parsed : IsComplete(c)}

Batches == UNION {[1..n -> Parsed] : n \in 0..MaxCreds}

\* The Credential row of a triple that has none (id 0); the unique
\* constraint uq_credential allows one row per (url, username, password).
NoCredential == [id |-> 0, first_seen |-> 0, last_seen |-> 0, seen_count |-> 0]

\* The locals of one bulk_upsert_credentials call: the batch, the position
\* of the credential being upserted, the row that db.query(Credential)
\* returned for it, and the two counts.  absent and present count the
\* complete triples that were not / were in the store when the loop reached
\* them.
NoBulk ==
    [pc |-> "idle", credentials |-> <<>>, k |-> 0, existing |-> NoCredential,
     new_count |-> 0, duplicate_count |-> 0, absent |-> 0, present |-> 0]

\* The store holds one credential that an earlier job (job 0) has upserted.
Seeded == Cred("https://a.com", "bob", "pw1")

\* The record of one upsert call in the history of its triple.
Call(j, ts, result) == [job |-> j, ts |-> ts, result |-> result]

JobCredential(j, id, n) == [job_id |-> j, credential_id |-> id, is_new |-> n]

DedupInit ==
    /\ credentials = [t \in Triples |->
                        IF t = Seeded
                        THEN [id |-> 1, first_seen |-> 1, last_seen |-> 1, seen_count |-> 1]
                        ELSE NoCredential]
    /\ job_credentials = SetToBag({JobCredential(0, 1, TRUE)})
    /\ bulk = [j \in Jobs |-> NoBulk]
    /\ upserts = [t \in Triples |-> IF t = Seeded THEN <<Call(0, 1, "new")>> ELSE <<>>]
    /\ overlapped = FALSE

\* datetime.now(): one tick per upsert call that reached its write.
RECURSIVE Ticks(_)
Ticks(S) ==
    IF S = {} THEN 0
    ELSE LET t == CHOOSE x \in S : TRUE IN Len(upserts[t]) + Ticks(S \ {t})

Now == Ticks(Triples) + 1

\* The next credential of the batch with all three fields non-empty (0 when
\* there is none): the loop skips the others.
NextComplete(b) ==
    LET later == {n \in (b.k + 1)..Len(b.credentials) : IsComplete(b.credentials[n])}
    IN IF later = {} THEN 0 ELSE CHOOSE n \in later : \A m \in later : n <= m

\* The worker of job j calls bulk_upsert_credentials(db, credentials, job_id).
bulk_upsert_credentials(j, creds) ==
    /\ bulk[j].pc = "idle"
    /\ bulk' = [bulk EXCEPT ![j] = [NoBulk EXCEPT !.pc = "loop", !.credentials = creds]]
    /\ UNCHANGED <<credentials, job_credentials, upserts, overlapped>>
    /\ UNCHANGED notDedup

\* The loop is exhausted: return (new_count, duplicate_count)
bulk_return(j) ==
    /\ bulk[j].pc = "loop"
    /\ NextComplete(bulk[j]) = 0
    /\ bulk' = [bulk EXCEPT ![j].pc = "returned", ![j].k = Len(bulk[j].credentials)]
    /\ UNCHANGED <<credentials, job_credentials, upserts, overlapped>>
    /\ UNCHANGED notDedup

\* upsert_credential, first half: existing = db.query(Credential)
\* .filter_by(url=url, username=username, password=password).first()
upsert_query(j) ==
    /\ bulk[j].pc = "loop"
    /\ NextComplete(bulk[j]) # 0
    /\ LET n == NextComplete(bulk[j])
           e == credentials[bulk[j].credentials[n]]
       IN bulk' = [bulk EXCEPT ![j].pc = "write", ![j].k = n, ![j].existing = e,
                               ![j].absent = @ + (IF e.id = 0 THEN 1 ELSE 0),
                               ![j].present = @ + (IF e.id = 0 THEN 0 ELSE 1)]
    /\ overlapped' = (overlapped \/ \E o \in Jobs \ {j} : bulk[o].pc = "write")
    /\ UNCHANGED <<credentials, job_credentials, upserts>>
    /\ UNCHANGED notDedup

\* job_credentials has the primary key (job_id, credential_id).
PrimaryKeyTaken_Never(j, id) == FALSE

PrimaryKeyTaken(j, id) ==
    \E r \in BagToSet(job_credentials) : r.job_id = j /\ r.credential_id = id

\* upsert_credential, if existing: last_seen = now, seen_count += 1 on the
\* loaded row, commit; then the JobCredential row (is_new False) and commit.
\* The second commit raises when the job already has a row for the credential.
upsert_existing(j) ==
    /\ bulk[j].pc = "write"
    /\ bulk[j].existing.id # 0
    /\ LET c == bulk[j].credentials[bulk[j].k]
           e == bulk[j].existing
           raises == PrimaryKeyTaken(j, e.id)
       IN /\ credentials' = [credentials EXCEPT ![c].last_seen = Now,
                                                ![c].seen_count = e.seen_count + 1]
          /\ job_credentials' = IF raises THEN job_credentials
                                ELSE job_credentials (+) SetToBag({JobCredential(j, e.id, FALSE)})
          /\ bulk' = [bulk EXCEPT ![j].pc = IF raises THEN "raised" ELSE "loop",
                                  ![j].duplicate_count = IF raises THEN @ ELSE @ + 1]
          /\ upserts' = [upserts EXCEPT ![c] =
                           Append(@, Call(j, Now, IF raises THEN "raised" ELSE "duplicate"))]
    /\ UNCHANGED overlapped
    /\ UNCHANGED notDedup

\* upsert_credential, else: the new Credential row (seen_count 1) and its
\* JobCredential row (is_new True) in one transaction.  The insert raises
\* when another session has committed the triple since the query.
upsert_new(j) ==
    /\ bulk[j].pc = "write"
    /\ bulk[j].existing.id = 0
    /\ LET c == bulk[j].credentials[bulk[j].k]
           raises == credentials[c].id # 0
           id == Cardinality({t \in Triples : credentials[t].id # 0}) + 1
       IN IF raises
          THEN /\ bulk' = [bulk EXCEPT ![j].pc = "raised"]
               /\ upserts' = [upserts EXCEPT ![c] = Append(@, Call(j, Now, "raised"))]
               /\ UNCHANGED <<credentials, job_credentials>>
          ELSE /\ credentials' = [credentials EXCEPT ![c] =
                                    [id |-> id, first_seen |-> Now, last_seen |-> Now,
                                     seen_count |-> 1]]
               /\ job_credentials' = job_credentials (+) SetToBag({JobCredential(j, id, TRUE)})
               /\ bulk' = [bulk EXCEPT ![j].pc = "loop", ![j].new_count = @ + 1]
               /\ upserts' = [upserts EXCEPT ![c] = Append(@, Call(j, Now, "new"))]
    /\ UNCHANGED overlapped
    /\ UNCHANGED notDedup

NextDedup ==
    \/ \E j \in Jobs, creds \in Batches : bulk_upsert_credentials(j, creds)
    \/ \E j \in Jobs : bulk_return(j)
    \/ \E j \in Jobs : upsert_query(j)
    \/ \E j \in Jobs : upsert_existing(j)
    \/ \E j \in Jobs : upsert_new(j)

\* ---- strings and regular expressions --------------------------------------
\* A Python str is a TLA+ string; Ch(s, i) is s[i-1].
Ch(s, i) == SubSeq(s, i, i)

CharsOf(s) == {Ch(s, i) : i \in 1..Len(s)}

LowerCase == "abcdefghijklmnopqrstuvwxyz"

UpperCase == "ABCDEFGHIJKLMNOPQRSTUVWXYZ"

Digits == "0123456789"

\* \s, and the characters str.strip() removes.
Space == {" ", "\t", "\n", "\r", "\f"}

Lowest(S) == CHOOSE n \in S : \A m \in S : n <= m

Highest(S) == CHOOSE n \in S : \A m \in S : n >= m

\* body(v) for the value v of x: x is evaluated once, as an assignment does.
With(x, body(_)) == CHOOSE r \in {body(v) : v \in {x}} : TRUE

\* s.strip()
Strip(s) ==
    LET kept == {i \in 1..Len(s) : Ch(s, i) \notin Space}
    IN IF kept = {} THEN "" ELSE SubSeq(s, Lowest(kept), Highest(kept))

\* s.startswith(p)
StartsWith(s, p) == Len(s) >= Len(p) /\ SubSeq(s, 1, Len(p)) = p

\* s.find(sub) + 1
Find(s, sub) ==
    LET at == {i \in 1..(Len(s) - Len(sub) + 1) : SubSeq(s, i, i + Len(sub) - 1) = sub}
    IN IF at = {} THEN 0 ELSE Lowest(at)

\* sub in s
Contains(s, sub) == Find(s, sub) # 0

\* s.count(c) for a single character c
Count(s, c) == Cardinality({i \in 1..Len(s) : Ch(s, i) = c})

\* s[i-1:]
From(s, i) == SubSeq(s, i, Len(s))

\* s.split(sep)
RECURSIVE Split(_, _)
Split(s, sep) ==
    LET i == Find(s, sep)
    IN IF i = 0 THEN <<s>>
       ELSE <<SubSeq(s, 1, i - 1)>> \o Split(From(s, i + Len(sep)), sep)

\* sep.join(parts)
RECURSIVE Join(_, _)
Join(parts, sep) ==
    IF Len(parts) = 0 THEN ""
    ELSE IF Len(parts) = 1 THEN parts[1]
    ELSE parts[1] \o sep \o Join(Tail(parts), sep)

\* s.isdigit()
IsDigit(s) == Len(s) > 0 /\ \A i \in 1..Len(s) : Ch(s, i) \in CharsOf(Digits)

\* s.lower()
RECURSIVE Lower(_)
Lower(s) ==
    IF Len(s) = 0 THEN ""
    ELSE LET c == Ch(s, 1)
             u == Find(UpperCase, c)
         IN (IF u = 0 THEN c ELSE Ch(LowerCase, u)) \o Lower(From(s, 2))

\* One item of a regular expression: a character class (negated or not)
\* repeated min..max times (max -1: no upper bound), greedy or lazy.
Item(class, neg, min, max, lazy) ==
    [class |-> class, neg |-> neg, min |-> min, max |-> max, lazy |-> lazy]

\* [...]  [^...]  c  c?  [...]+  [^...]+  [...]*  [^...]*  [^...]+?  .  .+  .*
One(class) == Item(class, FALSE, 1, 1, FALSE)

Lit(c) == One({c})

Opt(c) == Item({c}, FALSE, 0, 1, FALSE)

Plus(class) == Item(class, FALSE, 1, -1, FALSE)

PlusNot(class) == Item(class, TRUE, 1, -1, FALSE)

Star(class) == Item(class, FALSE, 0, -1, FALSE)

StarNot(class) == Item(class, TRUE, 0, -1, FALSE)

LazyPlusNot(class) == Item(class, TRUE, 1, -1, TRUE)

\* A literal string as a regular expression.
Str(s) == [i \in 1..Len(s) |-> Lit(Ch(s, i))]

InClass(c, a) == (c \in a.class) # a.neg

\* The longest run of characters of the item's class at pos, up to its max.
Run(s, pos, a) ==
    LET left == Len(s) - pos + 1
        cap == IF a.max < 0 \/ a.max > left THEN left ELSE a.max
        stop == {i \in 0..(cap - 1) : ~InClass(Ch(s, pos + i), a)}
    IN IF stop = {} THEN cap ELSE Lowest(stop)

\* The result of a failed match.
NoMatch == <<0>>

\* The backtracking matcher of re: items k.. of the expression matched at
\* pos, as the sequence of the positions after each item; a greedy item
\* tries its longest run first, a lazy one its shortest.  toEnd is the $.
RECURSIVE Match(_, _, _, _, _)
RECURSIVE Try(_, _, _, _, _, _, _)
Match(re, k, s, pos, toEnd) ==
    IF k > Len(re)
    THEN IF toEnd /\ pos # Len(s) + 1 THEN NoMatch ELSE <<>>
    ELSE LET hi == Run(s, pos, re[k])
         IN IF hi < re[k].min THEN NoMatch
            ELSE Try(re, k, s, pos, toEnd, IF re[k].lazy THEN re[k].min ELSE hi, hi)

Try(re, k, s, pos, toEnd, n, hi) ==
    LET r == Match(re, k + 1, s, pos + n, toEnd)
    IN IF r # NoMatch THEN <<pos + n>> \o r
       ELSE IF re[k].lazy
       THEN IF n < hi THEN Try(re, k, s, pos, toEnd, n + 1, hi) ELSE NoMatch
       ELSE IF n > re[k].min THEN Try(re, k, s, pos, toEnd, n - 1, hi) ELSE NoMatch

\* re.match(r'^...$', s)
re_match(re, s) == Match(re, 1, s, 1, TRUE)

\* re.search(r'...', s): the leftmost match, as <<start>> \o positions.
re_search(re, s) ==
    LET at == {p \in 1..(Len(s) + 1) : Match(re, 1, s, p, FALSE) # NoMatch}
    IN IF at = {} THEN NoMatch ELSE <<Lowest(at)>> \o Match(re, 1, s, Lowest(at), FALSE)

\* The text of items a..b of a match m that started at position start.
Group(s, m, start, a, b) == SubSeq(s, IF a = 1 THEN start ELSE m[a - 1], m[b] - 1)

\* ---- the line parser (scanner_engine.py) ----------------------------------
\* A parsed line; None (Python's None) has pattern_id 0.  The 'original'
\* key of the dict is the line itself and is not kept.
Hit(k, url, username, password) ==
    [pattern_id |-> k, url |-> url, username |-> username, password |-> password]

None == Hit(0, "", "", "")

\* re.sub(r'^\d+;?', '', s)
StripDigits(s) ==
    LET m == Match(<<Plus(CharsOf(Digits)), Opt(";")>>, 1, s, 1, FALSE)
    IN IF m = NoMatch THEN s ELSE From(s, m[2])

\* CredentialParser.normalize_url; "" is None.
normalize_url(url_part) ==
    IF StartsWith(url_part, "company/") \/ Contains(url_part, "Company,") THEN ""
    ELSE LET u == Strip(StripDigits(url_part))
         IN IF StartsWith(u, "http://") \/ StartsWith(u, "https://") THEN u
            ELSE IF Contains(u, "/") /\ ~StartsWith(u, "www.") THEN "https://" \o u
            ELSE IF Contains(u, ".") THEN "https://" \o u
            ELSE ""

\* https?://[^\s]+   (9 items)
HttpUrl == Str("http") \o <<Opt("s")>> \o Str("://") \o <<PlusNot(Space)>>

\* [^\s:]+@[^\s:]+   (3 items)
EmailLike == <<PlusNot(Space \cup {":"}), Lit("@"), PlusNot(Space \cup {":"})>>

\* .+ and .*
DotPlus == PlusNot({"\n"})

DotStar == StarNot({"\n"})

\* [a-zA-Z0-9.-]
HostChars == CharsOf(LowerCase) \cup CharsOf(UpperCase) \cup CharsOf(Digits) \cup {".", "-"}

\* ^(https?://[^\s]+)\s+([^\s:]+@[^\s:]+):(.+)$
pattern1 == HttpUrl \o <<Plus(Space)>> \o EmailLike \o <<Lit(":"), DotPlus>>

\* ^(https?://[^\s]+)\s+([^\s:@]+):(.+)$
pattern2 == HttpUrl \o <<Plus(Space), PlusNot(Space \cup {":", "@"}), Lit(":"), DotPlus>>

\* ^(https?://[^\s]+)\s*:\s*([^:]+?)\s*:\s*(.+)$
pattern3 ==
    HttpUrl \o <<Star(Space), Lit(":"), Star(Space), LazyPlusNot({":"}),
                 Star(Space), Lit(":"), Star(Space), DotPlus>>

\* ^([^\s:]+)\s*:\s*([^:]+?)\s*:\s*(.+)$
pattern4 ==
    <<PlusNot(Space \cup {":"}), Star(Space), Lit(":"), Star(Space), LazyPlusNot({":"}),
      Star(Space), Lit(":"), Star(Space), DotPlus>>

\* ^([^:\s]+):([^:]+):(.+)$
pattern5 == <<PlusNot(Space \cup {":"}), Lit(":"), PlusNot({":"}), Lit(":"), DotPlus>>

\* ^([^@:]+):([^@]+)@([^@\s]+)$
reverse_pattern ==
    <<PlusNot({"@", ":"}), Lit(":"), PlusNot({"@"}), Lit("@"), PlusNot(Space \cup {"@"})>>

\* ^\[([^\]]+)\]\s*(.+)$
bracket_pattern == <<Lit("["), PlusNot({"]"}), Lit("]"), Star(Space), DotPlus>>

\* ([a-zA-Z0-9._%+-]+@[a-zA-Z0-9.-]+\.[a-zA-Z]{2,}):([^\s]+)
email_pattern ==
    <<Plus(HostChars \cup {"_", "%", "+"}), Lit("@"), Plus(HostChars), Lit("."),
      Item(CharsOf(LowerCase) \cup CharsOf(UpperCase), FALSE, 2, -1, FALSE),
      Lit(":"), PlusNot(Space)>>

\* (https?://[^\s]+)
url_pattern == HttpUrl

\* ^([^\s]+)\s+([^\s:]+@[^\s:]+):(.+)$
pattern14 == <<PlusNot(Space), Plus(Space)>> \o EmailLike \o <<Lit(":"), DotPlus>>

\* ^(https?://[^\s]+)\s+([^\s:]+@[^\s:]+)\s+:$
pattern15 == HttpUrl \o <<Plus(Space)>> \o EmailLike \o <<Plus(Space), Lit(":")>>

\* ^(https?://[^\s]+)\s+([^\s:]+@[^\s:]+)\s+([^:\s]+):?$
pattern16 ==
    HttpUrl \o <<Plus(Space)>> \o EmailLike
            \o <<Plus(Space), PlusNot(Space \cup {":"}), Opt(":")>>

\* ^[^:]*:([^:]+@[^:]+):([^\s]+)\s.*$
pattern17 ==
    <<StarNot({":"}), Lit(":"), PlusNot({":"}), Lit("@"), PlusNot({":"}), Lit(":"),
      PlusNot(Space), One(Space), DotStar>>

\* ^([a-zA-Z0-9.-]+(?:/[^\s]*)?)\s+([^\s:]+@[^\s:]+):(.+)$ with the optional
\* group taken, which the matcher tries first ...
pattern18 ==
    <<Plus(HostChars), Lit("/"), StarNot(Space), Plus(Space)>> \o EmailLike
        \o <<Lit(":"), DotPlus>>

\* ... and with the optional group left out.
pattern18_bare == <<Plus(HostChars), Plus(Space)>> \o EmailLike \o <<Lit(":"), DotPlus>>

\* ^([^\s]+)\s+([^\s@]+)\s+([^\s:]+@[^\s:]+)$
pattern19 ==
    <<PlusNot(Space), Plus(Space), PlusNot(Space \cup {"@"}), Plus(Space)>> \o EmailLike

\* ^([^\s]+)\s+([^\s:]+@[^\s:]+)\s+([^\s]+)$
pattern20 == <<PlusNot(Space), Plus(Space)>> \o EmailLike \o <<Plus(Space), PlusNot(Space)>>

\* Each if-block of parse_credential_line, as the dict it returns, or None
\* when the block falls through to the next one.
Pattern1_Never(line) == None

Pattern1(line) ==
    LET m == re_match(pattern1, line)
    IN IF m = NoMatch THEN None
       ELSE Hit(1, Strip(Group(line, m, 1, 1, 9)), Strip(Group(line, m, 1, 11, 13)),
                Strip(Group(line, m, 1, 15, 15)))

Pattern2(line) ==
    LET m == re_match(pattern2, line)
        url == Group(line, m, 1, 1, 9)
        username == Group(line, m, 1, 11, 11)
    IN IF m = NoMatch THEN None
       ELSE IF ~StartsWith(username, "http") /\ Contains(url, ".")
       THEN Hit(2, Strip(url), Strip(username), Strip(Group(line, m, 1, 13, 13)))
       ELSE None

Pattern3(line) ==
    LET m == re_match(pattern3, line)
    IN IF m = NoMatch THEN None
       ELSE Hit(3, Strip(Group(line, m, 1, 1, 9)), Strip(Group(line, m, 1, 13, 13)),
                Strip(Group(line, m, 1, 17, 17)))

Pattern4(line) ==
    LET m == re_match(pattern4, line)
        normalized_url == normalize_url(Strip(Group(line, m, 1, 1, 1)))
    IN IF m = NoMatch THEN None
       ELSE IF normalized_url # ""
       THEN Hit(4, normalized_url, Strip(Group(line, m, 1, 5, 5)),
                Strip(Group(line, m, 1, 9, 9)))
       ELSE None

Pattern5(line) ==
    LET m == re_match(pattern5, line)
        normalized_url == normalize_url(Strip(Group(line, m, 1, 1, 1)))
    IN IF m = NoMatch THEN None
       ELSE IF normalized_url # ""
       THEN Hit(5, normalized_url, Strip(Group(line, m, 1, 3, 3)),
                Strip(Group(line, m, 1, 5, 5)))
       ELSE None

\* The four separator blocks: three or more fields split on sep.
Separated(k, sep, line) ==
    LET parts == Split(line, sep)
        url_part == Strip(parts[1])
        username == Strip(parts[2])
        password == Strip(Join(SubSeq(parts, 3, Len(parts)), sep))
        url == IF StartsWith(url_part, "http") THEN url_part ELSE normalize_url(url_part)
    IN IF Len(parts) >= 3 /\ url # "" /\ username # "" /\ password # ""
       THEN Hit(k, url, username, password)
       ELSE None

Pattern6(line) == Separated(6, "|", line)

Pattern7(line) == Separated(7, ";", line)

Pattern8(line) == Separated(8, "\t", line)

Pattern9(line) == Separated(9, ",", line)

Pattern10(line) ==
    LET m == re_match(reverse_pattern, line)
        username == Strip(Group(line, m, 1, 1, 1))
        password == Strip(Group(line, m, 1, 3, 3))
        url == normalize_url(Strip(Group(line, m, 1, 5, 5)))
    IN IF m = NoMatch THEN None
       ELSE IF url # "" /\ username # "" /\ password # ""
       THEN Hit(10, url, username, password)
       ELSE None

Pattern11(line) ==
    LET m == re_match(bracket_pattern, line)
        url_part == Strip(Group(line, m, 1, 2, 2))
        cred_parts == Split(Strip(Group(line, m, 1, 5, 5)), ":")
        username == Strip(cred_parts[1])
        password == Strip(Join(Tail(cred_parts), ":"))
        url == IF StartsWith(url_part, "http") THEN url_part ELSE normalize_url(url_part)
    IN IF m = NoMatch THEN None
       ELSE IF Len(cred_parts) >= 2 /\ url # "" /\ username # "" /\ password # ""
       THEN Hit(11, url, username, password)
       ELSE None

Pattern12(line) ==
    LET parts == Split(line, ":")
        first_part == Strip(parts[1])
        port == IsDigit(Strip(parts[2]))
        cred_start_idx == IF port THEN 3 ELSE 2
        username == Strip(parts[cred_start_idx])
        password == Strip(Join(SubSeq(parts, cred_start_idx + 1, Len(parts)), ":"))
        url == IF port THEN first_part \o ":" \o parts[2] ELSE first_part
    IN IF Len(parts) >= 3 /\ StartsWith(first_part, "http")
          /\ cred_start_idx < Len(parts) /\ username # "" /\ password # ""
       THEN Hit(12, url, username, password)
       ELSE None

Pattern13(line) ==
    LET email_match == re_search(email_pattern, line)
        url_match == re_search(url_pattern, line)
    IN IF email_match = NoMatch \/ url_match = NoMatch THEN None
       ELSE Hit(13, Group(line, Tail(url_match), url_match[1], 1, 9),
                Group(line, Tail(email_match), email_match[1], 1, 5),
                Group(line, Tail(email_match), email_match[1], 7, 7))

Pattern14(line) ==
    LET m == re_match(pattern14, line)
        url_part == Group(line, m, 1, 1, 1)
        email == Group(line, m, 1, 3, 5)
        password == Group(line, m, 1, 7, 7)
        url == IF StartsWith(url_part, "http") THEN url_part
               ELSE IF Contains(url_part, "/") \/ Contains(url_part, ".")
               THEN "https://" \o url_part
               ELSE normalize_url(url_part)
    IN IF m = NoMatch THEN None
       ELSE IF url # "" /\ email # "" /\ password # ""
       THEN Hit(14, url, Strip(email), Strip(password))
       ELSE None

\* The block of pattern 15 returns None for the line instead of falling through.
Pattern15(line) == re_match(pattern15, line) # NoMatch

Pattern16(line) ==
    LET m == re_match(pattern16, line)
    IN IF m = NoMatch THEN None
       ELSE Hit(16, Strip(Group(line, m, 1, 1, 9)), Strip(Group(line, m, 1, 11, 13)),
                Strip(Group(line, m, 1, 15, 15)))

Pattern17(line) ==
    LET m == re_match(pattern17, line)
        email == Group(line, m, 1, 3, 5)
        password == Group(line, m, 1, 7, 7)
        domain == Split(email, "@")[2]
        url == normalize_url(domain)
    IN IF m = NoMatch THEN None
       ELSE IF domain # "" /\ url # "" /\ email # "" /\ password # ""
       THEN Hit(17, url, Strip(email), Strip(password))
       ELSE None

Pattern18(line) ==
    LET taken == re_match(pattern18, line)
        bare == re_match(pattern18_bare, line)
        url_part == IF taken # NoMatch THEN Group(line, taken, 1, 1, 3)
                    ELSE Group(line, bare, 1, 1, 1)
        email == IF taken # NoMatch THEN Group(line, taken, 1, 5, 7)
                 ELSE Group(line, bare, 1, 3, 5)
        password == IF taken # NoMatch THEN Group(line, taken, 1, 9, 9)
                    ELSE Group(line, bare, 1, 7, 7)
        url == IF StartsWith(url_part, "http") THEN url_part
               ELSE IF Contains(url_part, ".") THEN "https://" \o url_part
               ELSE ""
    IN IF taken = NoMatch /\ bare = NoMatch THEN None
       ELSE IF url # "" /\ email # "" /\ password # ""
       THEN Hit(18, url, Strip(email), Strip(password))
       ELSE None

Pattern19(line) ==
    LET m == re_match(pattern19, line)
        url == normalize_url(Group(line, m, 1, 1, 1))
        password == Group(line, m, 1, 3, 3)
        email == Group(line, m, 1, 5, 7)
    IN IF m = NoMatch THEN None
       ELSE IF url # "" /\ email # "" /\ password # ""
       THEN Hit(19, url, Strip(email), Strip(password))
       ELSE None

Pattern20(line) ==
    LET m == re_match(pattern20, line)
        url == normalize_url(Group(line, m, 1, 1, 1))
        email == Group(line, m, 1, 3, 5)
        password == Group(line, m, 1, 7, 7)
    IN IF m = NoMatch THEN None
       ELSE IF url # "" /\ email # "" /\ password # "" /\ ~StartsWith(password, "http")
       THEN Hit(20, url, Strip(email), Strip(password))
       ELSE None

\* The if-block of pattern k alone: what it returns, and whether it returns.
PatternResult(k, line) ==
    CASE k = 1 -> Pattern1(line)
      [] k = 2 -> Pattern2(line)
      [] k = 3 -> Pattern3(line)
      [] k = 4 -> Pattern4(line)
      [] k = 5 -> Pattern5(line)
      [] k = 6 -> Pattern6(line)
      [] k = 7 -> Pattern7(line)
      [] k = 8 -> Pattern8(line)
      [] k = 9 -> Pattern9(line)
      [] k = 10 -> Pattern10(line)
      [] k = 11 -> Pattern11(line)
      [] k = 12 -> Pattern12(line)
      [] k = 13 -> Pattern13(line)
      [] k = 14 -> Pattern14(line)
      [] k = 15 -> None
      [] k = 16 -> Pattern16(line)
      [] k = 17 -> Pattern17(line)
      [] k = 18 -> Pattern18(line)
      [] k = 19 -> Pattern19(line)
      [] k = 20 -> Pattern20(line)

Fires(k, line) == IF k = 15 THEN Pattern15(line) ELSE PatternResult(k, line) # None

\* The pre-filters: True when the stripped line is rejected outright.
Rejected(line) ==
    LET lower == Lower(line)
    IN \/ line = ""
       \/ StartsWith(line, "#")
       \/ Contains(lower, "company/")
       \/ Contains(lower, "public company")
       \/ Contains(lower, "e-learning providers")

\* if re.match(r'^\d+;', line): line = re.sub(r'^\d+;', '', line)
StripLineNumber(line) ==
    LET m == Match(<<Plus(CharsOf(Digits)), Lit(";")>>, 1, line, 1, FALSE)
    IN IF m = NoMatch THEN line ELSE From(line, m[2])

\* The chain of if-blocks, in the order of the source.
Patterns(line) ==
    IF Pattern1(line) # None THEN Pattern1(line)
    ELSE IF Pattern2(line) # None THEN Pattern2(line)
    ELSE IF Pattern3(line) # None THEN Pattern3(line)
    ELSE IF Pattern4(line) # None THEN Pattern4(line)
    ELSE IF Pattern5(line) # None THEN Pattern5(line)
    ELSE IF Pattern6(line) # None THEN Pattern6(line)
    ELSE IF Pattern7(line) # None THEN Pattern7(line)
    ELSE IF Pattern8(line) # None THEN Pattern8(line)
    ELSE IF Pattern9(line) # None THEN Pattern9(line)
    ELSE IF Pattern10(line) # None THEN Pattern10(line)
    ELSE IF Pattern11(line) # None THEN Pattern11(line)
    ELSE IF Pattern12(line) # None THEN Pattern12(line)
    ELSE IF Pattern13(line) # None THEN Pattern13(line)
    ELSE IF Pattern14(line) # None THEN Pattern14(line)
    ELSE IF Pattern15(line) THEN None
    ELSE IF Pattern16(line) # None THEN Pattern16(line)
    ELSE IF Pattern17(line) # None THEN Pattern17(line)
    ELSE IF Pattern18(line) # None THEN Pattern18(line)
    ELSE IF Pattern19(line) # None THEN Pattern19(line)
    ELSE Pattern20(line)

\* CredentialParser.parse_credential_line
parse_credential_line(line) ==
    IF Rejected(Strip(line)) THEN None ELSE Patterns(StripLineNumber(Strip(line)))

\* ---- domains (utils/domain_utils.py, DedupService.extract_domain) ----------
PUBLIC_SUFFIX_MULTI_None == {}

PUBLIC_SUFFIX_MULTI ==
    { "co.id", "go.id", "ac.id", "or.id", "web.id", "my.id", "sch.id",
      "co.uk", "gov.uk", "ac.uk", "org.uk",
      "com.au", "net.au", "gov.au",
      "co.jp" }

INVALID_ROOT_DOMAINS ==
    { "net.id", "id",
      "com", "net", "org", "edu", "gov", "mil",
      "co", "uk", "au", "jp", "de", "fr", "it", "es" }

ALLOW_EXACT_ROOTS == {"desa.id", "biz.id"}

\* s.split(sep, 1)[0] and s.split(sep, 1)[1]
Before(s, sep) == With(Find(s, sep), LAMBDA i : IF i = 0 THEN s ELSE SubSeq(s, 1, i - 1))

After(s, sep) == From(s, Find(s, sep) + Len(sep))

\* s.endswith(t)
EndsWith(s, t) == Len(s) >= Len(t) /\ SubSeq(s, Len(s) - Len(t) + 1, Len(s)) = t

\* s[4:] if s.startswith("www.") else s
StripWww(s) == IF StartsWith(s, "www.") THEN From(s, 5) ELSE s

\* s.replace(c, "") for a single character c
RECURSIVE Without(_, _)
Without(s, c) ==
    IF Len(s) = 0 THEN ""
    ELSE (IF Ch(s, 1) = c THEN "" ELSE Ch(s, 1)) \o Without(From(s, 2), c)

\* s.lstrip()
LStrip(s) ==
    With({i \in 1..Len(s) : Ch(s, i) \notin Space},
         LAMBDA kept : IF kept = {} THEN "" ELSE From(s, Lowest(kept)))

\* urlsplit: the position of the ':' that ends the scheme of url, 0 when
\* url has no scheme.
SchemeEnd(url) ==
    With(Find(url, ":"), LAMBDA colon :
        IF /\ colon > 1
           /\ Ch(url, 1) \in CharsOf(LowerCase) \cup CharsOf(UpperCase)
           /\ \A i \in 1..(colon - 1) :
                  Ch(url, i) \in CharsOf(LowerCase) \cup CharsOf(UpperCase)
                                    \cup CharsOf(Digits) \cup {"+", "-", "."}
        THEN colon
        ELSE 0)

\* _splitnetloc: the position after the netloc of rest, 0 when rest does
\* not start with "//".
NetlocEnd(rest) ==
    IF ~StartsWith(rest, "//") THEN 0
    ELSE With({i \in 3..Len(rest) : Ch(rest, i) \in {"/", "?", "#"}},
              LAMBDA delims : IF delims = {} THEN Len(rest) + 1 ELSE Lowest(delims))

\* _splitparams: the path without its parameters, for a scheme that has them.
SplitParams(scheme, path) ==
    With({i \in 1..Len(path) : Ch(path, i) = "/"}, LAMBDA slashes :
        With({i \in 1..Len(path) :
                  Ch(path, i) = ";" /\ (slashes # {} => i > Highest(slashes))},
             LAMBDA semis :
                 IF scheme \in {"", "http", "https", "ftp"} /\ semis # {}
                 THEN SubSeq(path, 1, Lowest(semis) - 1)
                 ELSE path))

\* urllib.parse.urlparse for a str without brackets: the netloc and the path.
\* It drops leading spaces and every tab and newline first.
urlparse(given) ==
    With(Without(Without(Without(LStrip(given), "\t"), "\r"), "\n"), LAMBDA url :
    With(SchemeEnd(url), LAMBDA colon :
    With(From(url, colon + 1), LAMBDA rest :
    With(NetlocEnd(rest), LAMBDA delim :
        [netloc |-> IF delim = 0 THEN "" ELSE SubSeq(rest, 3, delim - 1),
         path |-> SplitParams(IF colon = 0 THEN "" ELSE Lower(SubSeq(url, 1, colon - 1)),
                              Before(Before(IF delim = 0 THEN rest ELSE From(rest, delim),
                                            "#"), "?"))]))))

\* parsed.netloc or parsed.path or url
NetlocOrPath(url) ==
    With(urlparse(url), LAMBDA u :
        IF u.netloc # "" THEN u.netloc ELSE IF u.path # "" THEN u.path ELSE url)

\* (?:[a-z0-9](?:[a-z0-9-]{0,61}[a-z0-9])?)
label(s) ==
    /\ Len(s) \in 1..63
    /\ Ch(s, 1) \in CharsOf(LowerCase) \cup CharsOf(Digits)
    /\ Ch(s, Len(s)) \in CharsOf(LowerCase) \cup CharsOf(Digits)
    /\ \A i \in 1..Len(s) : Ch(s, i) \in CharsOf(LowerCase) \cup CharsOf(Digits) \cup {"-"}

\* ^(?:{label}\.)+ matches the labels parts[1..n], each followed by a dot.
Labels(parts, n) == n >= 1 /\ \A i \in 1..n : label(parts[i])

\* domain_re of normalize_domain: ^(?:{label}\.)+[a-z]{2,24}$ matches s.
domain_re(s) ==
    With(Split(s, "."), LAMBDA parts :
        /\ Labels(parts, Len(parts) - 1)
        /\ Len(parts[Len(parts)]) \in 2..24
        /\ CharsOf(parts[Len(parts)]) \subseteq CharsOf(LowerCase))

\* domain_re of best_domain_from: its f-string does not escape the braces
\* of {2,24}, so the expression compiled is ^(?:{label}\.)+[a-z](2, 24)$ :
\* labels, one letter, and the text "2, 24".
best_domain_re(s) ==
    With(Len(s) - Len("2, 24"), LAMBDA n :
        /\ n >= 1
        /\ From(s, n + 1) = "2, 24"
        /\ Ch(s, n) \in CharsOf(LowerCase)
        /\ With(Split(SubSeq(s, 1, n - 1), "."), LAMBDA parts :
               parts[Len(parts)] = "" /\ Labels(parts, Len(parts) - 1)))

\* The positions after each "[a-z0-9-]+\." repeated from pos.
RECURSIVE Dotted(_, _)
Dotted(s, pos) ==
    With(Run(s, pos, Plus(CharsOf(LowerCase) \cup CharsOf(Digits) \cup {"-"})), LAMBDA n :
        IF n >= 1 /\ pos + n <= Len(s) /\ Ch(s, pos + n) = "."
        THEN <<pos + n + 1>> \o Dotted(s, pos + n + 1)
        ELSE <<>>)

\* The length of the [a-z]{2,24} at pos, 0 when there is none.
Tld(s, pos) ==
    With(Run(s, pos, Item(CharsOf(LowerCase), FALSE, 2, 24, FALSE)),
         LAMBDA n : IF n >= 2 THEN n ELSE 0)

\* The position after the match of (?:[a-z0-9-]+\.)+[a-z]{2,24} at pos, the
\* most repetitions first; 0 when there is none.
CandidateEnd(s, pos) ==
    With(Dotted(s, pos), LAMBDA dots :
        With({j \in 1..Len(dots) : Tld(s, dots[j]) > 0}, LAMBDA ok :
            IF ok = {} THEN 0 ELSE dots[Highest(ok)] + Tld(s, dots[Highest(ok)])))

\* re.findall(r"(?:[a-z0-9-]+\.)+[a-z]{2,24}", s[pos-1:])
RECURSIVE findall(_, _)
findall(s, pos) ==
    IF pos > Len(s) THEN <<>>
    ELSE With(CandidateEnd(s, pos), LAMBDA end :
             IF end = 0 THEN findall(s, pos + 1)
             ELSE <<SubSeq(s, pos, end - 1)>> \o findall(s, end))

\* max(matches, key=len): the first of the longest.
Longest(matches) ==
    matches[Lowest({i \in 1..Len(matches) :
                       \A j \in 1..Len(matches) : Len(matches[j]) <= Len(matches[i])})]

\* find_candidate: the first of the longest matches, without its www.
find_candidate(text) ==
    With(findall(text, 1), LAMBDA matches :
        IF Len(matches) = 0 THEN "" ELSE StripWww(Longest(matches)))

\* cand of normalize_domain: from the cleaned string, else from the value.
Salvaged(s, s0) == With(find_candidate(s), LAMBDA c : IF c # "" THEN c ELSE find_candidate(s0))

\* a domain-like candidate that is a domain, else "other"
ValidOrOther(cand) == IF cand # "" /\ domain_re(cand) THEN cand ELSE "other"

normalize_domain(value) ==
    With(Lower(Strip(value)), LAMBDA s0 :
    With(Before(Before(IF Contains(s0, "://") THEN NetlocOrPath(s0) ELSE s0, "/"), ":"),
         LAMBDA s2 :
    With(StripWww(s2), LAMBDA s :
        IF s0 = "" THEN "other"
        ELSE IF s2 \in {"http", "https"} THEN "other"
        ELSE IF domain_re(s) THEN s
        ELSE With(Salvaged(s, s0), ValidOrOther))))

\* "." .join(parts[-n:])
LastLabels(parts, n) ==
    Join(SubSeq(parts, IF Len(parts) > n THEN Len(parts) - n + 1 ELSE 1, Len(parts)), ".")

\* root in INVALID_ROOT_DOMAINS and root not in ALLOW_EXACT_ROOTS
RootOrOther(root) ==
    IF root \in INVALID_ROOT_DOMAINS /\ root \notin ALLOW_EXACT_ROOTS THEN "other" ELSE root

\* The loop over PUBLIC_SUFFIX_MULTI, for the suffix ps that matches.
RootUnder(norm, parts, ps) ==
    With(Len(Split(ps, ".")), LAMBDA n :
        IF Len(parts) <= n
        THEN IF norm \in ALLOW_EXACT_ROOTS THEN norm ELSE "other"
        ELSE RootOrOther(LastLabels(parts, n + 1)))

extract_root_domain(domain) ==
    With(normalize_domain(domain), LAMBDA norm :
    With(Split(norm, "."), LAMBDA parts :
    With({ps \in PUBLIC_SUFFIX_MULTI : EndsWith(norm, "." \o ps) \/ norm = ps},
         LAMBDA matching :
        IF norm = "other" THEN "other"
        ELSE IF norm \in ALLOW_EXACT_ROOTS THEN norm
        ELSE IF matching # {} THEN RootUnder(norm, parts, CHOOSE ps \in matching : TRUE)
        ELSE IF Len(parts) >= 2 THEN RootOrOther(LastLabels(parts, 2))
        ELSE "other")))

\* One fallback of best_domain_from: the normalized text if domain_re of
\* best_domain_from matches it, else the candidate found in the text if
\* domain_re matches that, else "".
Fallback(text) ==
    With(normalize_domain(text), LAMBDA n :
        IF n # "other" /\ best_domain_re(n) THEN n
        ELSE With(find_candidate(Lower(text)), LAMBDA cand :
                 IF cand # "" /\ best_domain_re(cand) THEN cand ELSE ""))

\* best_domain_from; None and "" are both "".
best_domain_from(domain, url, username) ==
    With(normalize_domain(domain), LAMBDA nd :
    With(IF url # "" THEN Fallback(url) ELSE "", LAMBDA from_url :
    With(IF Contains(username, "@") THEN Fallback(After(username, "@")) ELSE "",
         LAMBDA from_email :
    With(find_candidate(Lower(domain \o " " \o url \o " " \o username)), LAMBDA cand :
        IF nd # "other" /\ best_domain_re(nd) THEN nd
        ELSE IF from_url # "" THEN from_url
        ELSE IF from_email # "" THEN from_email
        ELSE IF cand # "" /\ best_domain_re(cand) THEN cand
        ELSE "other"))))

\* DedupService.extract_domain
extract_domain(url) ==
    With(StripWww(Before(NetlocOrPath(url), ":")), LAMBDA domain :
        IF url = "" THEN "other"
        ELSE IF /\ domain # ""
                /\ Contains(domain, ".")
                /\ ~IsDigit(Without(Without(domain, "."), "-"))
        THEN Strip(Lower(domain))
        ELSE normalize_domain(domain))

\* The domain upsert_credential stores for a new credential.
upsert_domain(url, username) ==
    With(IF url # "" THEN extract_domain(url) ELSE "", LAMBDA domain :
        IF domain = "other" \/ domain = ""
        THEN best_domain_from("", url, username)
        ELSE domain)

\* The arguments the calls are drawn from.
Domains ==
    { "mail.acme.co.id", "acme.com", "go.id", "desa.id", "net.id", "biz.id",
      "a.net.id", "x.desa.id", "co.uk", "a.b.co.uk", "a.com.au", "www.go.id",
      "a.id", "foo.co", "x.y.com", "sch.id", "login.portal.sch.id", "com",
      "localhost", "1.2.3.4", "HTTP://Mail.Acme.CO.ID/login", "acme.com:8080",
      "-bad.com", "www.acme.co.jp", "", "https" }

DomainFields == {"", "acme.com", "https", "mail.acme.co.id"}

Urls ==
    { "", "http://mail.acme.co.id/x", "https://localhost", "notaurl",
      "https://shop.example.org:8443/login" }

Usernames == {"", "bob", "alice@example.com", "carol@www.site.net"}

\* The arguments of normalize_domain: those of extract_root_domain and
\* strings with a repeated www. prefix, a port and a path.
Values ==
    Domains \cup { "www.acme.com", "www.www.acme.com", "WWW.www.acme.com:8080/x",
                   "http://www.www.acme.com/login", "see www.acme.com here" }

Lookup(fn, domain, url, username, result) ==
    [fn |-> fn, domain |-> domain, url |-> url, username |-> username, result |-> result]

DomainInit == lookup = Lookup("idle", "", "", "", "")

call_normalize_domain(value) ==
    /\ lookup.fn = "idle"
    /\ lookup' = Lookup("normalize_domain", value, "", "", normalize_domain(value))
    /\ UNCHANGED notDomain

call_extract_root_domain(domain) ==
    /\ lookup.fn = "idle"
    /\ lookup' = Lookup("extract_root_domain", domain, "", "", extract_root_domain(domain))
    /\ UNCHANGED notDomain

call_best_domain_from(domain, url, username) ==
    /\ lookup.fn = "idle"
    /\ lookup' = Lookup("best_domain_from", domain, url, username,
                        best_domain_from(domain, url, username))
    /\ UNCHANGED notDomain

\* upsert_credential up to the domain it gives a new Credential.
call_upsert_domain(url, username) ==
    /\ lookup.fn = "idle"
    /\ lookup' = Lookup("upsert_credential", "", url, username, upsert_domain(url, username))
    /\ UNCHANGED notDomain

NextDomain ==
    \/ \E value \in Values : call_normalize_domain(value)
    \/ \E domain \in Domains : call_extract_root_domain(domain)
    \/ \E domain \in DomainFields, url \in Urls, username \in Usernames :
           call_best_domain_from(domain, url, username)
    \/ \E url \in Urls, username \in Usernames : call_upsert_domain(url, username)

\* ---- parse_credentials_from_list ------------------------------------------
\* The lines the batches are drawn from: layouts of most patterns, several
\* layouts of one triple, two triples with one dedup key, rejected lines.
Lines ==
    { "http://x.com alice@x.com:secret",
      "  http://x.com alice@x.com:secret  ",
      "12;http://x.com alice@x.com:secret",
      "http://x.com alice@x.com secret",
      "login alice@x.com:secret at http://x.com",
      "a.com|b:c|d",
      "a.com|b|c:d",
      "#x.com:bob:secret",
      "http://x.com/company/a alice@x.com:secret",
      "http://x.com alice@x.com :",
      "no credentials here",
      "x.com:bob:secret",
      "bob:secret@x.com",
      "httpx:bob:secret",
      "note:alice@x.com:secret rest" }

\* What each of the lines parses to, and the first pattern that holds for it
\* (0: none), stripped and without its leading line number.
Parse == [l \in Lines |-> parse_credential_line(l)]

FirstFiring ==
    [l \in Lines |->
        LET firing == {k \in 1..20 : Fires(k, StripLineNumber(Strip(l)))}
        IN IF firing = {} THEN 0 ELSE Lowest(firing)]

LineBatches == UNION {[1..n -> Lines] : n \in 0..MaxLines}

\* CredentialParser.__init__
ParserInit ==
    /\ credential_lines = <<>>
    /\ line_num = 0
    /\ seen_credentials = {}
    /\ parsed_credentials = <<>>
    /\ parsed = None
    /\ unique_count = 0
    /\ parsing = "idle"

unique_key_PerPattern(p) ==
    (IF p.pattern_id = 1 THEN "1" ELSE "n") \o ":" \o p.url \o ":" \o p.username \o ":" \o p.password

\* f"{parsed['url']}:{parsed['username']}:{parsed['password']}"
unique_key(p) == p.url \o ":" \o p.username \o ":" \o p.password

\* {'line_num': line_num, **parsed}
Emitted(n, p) ==
    [line_num |-> n, pattern_id |-> p.pattern_id, url |-> p.url,
     username |-> p.username, password |-> p.password]

\* The call on a new parser: the dedup set and the output list start empty.
parse_credentials_from_list(lines) ==
    /\ parsing = "idle"
    /\ credential_lines' = lines
    /\ line_num' = 0
    /\ seen_credentials' = {}
    /\ parsed_credentials' = <<>>
    /\ parsing' = "loop"
    /\ UNCHANGED <<parsed, unique_count>>
    /\ UNCHANGED notParser

\* One iteration of the loop over enumerate(credential_lines, 1).
parse_next_line ==
    /\ parsing = "loop"
    /\ line_num < Len(credential_lines)
    /\ line_num' = line_num + 1
    /\ parsed' = parse_credential_line(credential_lines[line_num'])
    /\ IF parsed' # None /\ unique_key(parsed') \notin seen_credentials
       THEN /\ seen_credentials' = seen_credentials \cup {unique_key(parsed')}
            /\ parsed_credentials' = Append(parsed_credentials, Emitted(line_num', parsed'))
       ELSE UNCHANGED <<seen_credentials, parsed_credentials>>
    /\ UNCHANGED <<credential_lines, unique_count, parsing>>
    /\ UNCHANGED notParser

\* should_stop('parsing') raises at the checkpoint of a line.
parse_stopped ==
    /\ parsing = "loop"
    /\ line_num < Len(credential_lines)
    /\ parsing' = "raised"
    /\ UNCHANGED <<credential_lines, line_num, seen_credentials, parsed_credentials,
                   parsed, unique_count>>
    /\ UNCHANGED notParser

\* return unique_count
parse_return ==
    /\ parsing = "loop"
    /\ line_num = Len(credential_lines)
    /\ unique_count' = Len(parsed_credentials)
    /\ parsing' = "returned"
    /\ UNCHANGED <<credential_lines, line_num, seen_credentials, parsed_credentials, parsed>>
    /\ UNCHANGED notParser

NextParser ==
    \/ \E lines \in LineBatches : parse_credentials_from_list(lines)
    \/ parse_next_line
    \/ parse_stopped
    \/ parse_return

\* ---- the stop-check callback (build_should_stop) ---------------------------
\* Time is in tenths of a second.  The threads of the pool of
\* process_multiple_domains call the one closure _should_stop; nothing
\* orders their reads and writes of last_check, so the statements of two
\* calls interleave.
Interval == 5

PoolThreads == 1..MaxThreads

\* build_should_stop: last_check = 0.0
ThrottleInit ==
    /\ clock = 0
    /\ last_check = 0
    /\ stop_check = [t \in PoolThreads |-> [pc |-> "idle", now |-> 0]]
    /\ reads = <<>>

\* time.monotonic() advances.
Tick ==
    /\ clock < MaxClock
    /\ clock' = clock + 1
    /\ UNCHANGED <<last_check, stop_check, reads>>
    /\ UNCHANGED notThrottle

\* now = time.monotonic()
should_stop_now(t) ==
    /\ stop_check[t].pc = "idle"
    /\ stop_check' = [stop_check EXCEPT ![t] = [pc |-> "check", now |-> clock]]
    /\ UNCHANGED <<clock, last_check, reads>>
    /\ UNCHANGED notThrottle

\* if now - last_check < 0.5: return
should_stop_check(t) ==
    /\ stop_check[t].pc = "check"
    /\ stop_check' = [stop_check EXCEPT
           ![t].pc = IF stop_check[t].now - last_check < Interval THEN "idle" ELSE "assign"]
    /\ UNCHANGED <<clock, last_check, reads>>
    /\ UNCHANGED notThrottle

\* last_check = now
should_stop_assign(t) ==
    /\ stop_check[t].pc = "assign"
    /\ last_check' = stop_check[t].now
    /\ stop_check' = [stop_check EXCEPT ![t].pc = "read"]
    /\ UNCHANGED <<clock, reads>>
    /\ UNCHANGED notThrottle

\* db.expire_all(); db.query(ScanJob)...first(): the read of the job row, of
\* the call that sampled the clock at now; then the call returns or raises.
should_stop_read(t) ==
    /\ stop_check[t].pc = "read"
    /\ reads' = Append(reads, stop_check[t].now)
    /\ stop_check' = [stop_check EXCEPT ![t].pc = "idle"]
    /\ UNCHANGED <<clock, last_check>>
    /\ UNCHANGED notThrottle

NextThrottle ==
    \/ Tick
    \/ \E t \in PoolThreads :
           \/ should_stop_now(t)
           \/ should_stop_check(t)
           \/ should_stop_assign(t)
           \/ should_stop_read(t)

\* ---- the multi-domain collection (intelx_client.py) ------------------------
\* The domains a scan is asked for: two names, one of them also with a
\* leading blank, and the empty string.
ScanDomains == {"a.com", " a.com", "b.org", ""}

DomainLists == UNION {[1..n -> ScanDomains] : n \in 0..MaxTasks}

\* What the search and the inspection of one domain find: raw lines.
Found == {<<>>, <<"l1">>, <<"l2", "l3">>}

\* The tuple (domain, credentials, success_flag) a task returns.
TaskResult(domain, lines, success) ==
    [domain |-> domain, credentials |-> lines, success |-> success]

\* executor.submit(process_single_domain_task, ix, domain, ...)
Future(domain) ==
    [domain |-> domain, state |-> "running", result |-> TaskResult("", <<>>, FALSE)]

\* No collection has been called.
FanInInit ==
    /\ futures = <<>>
    /\ all_credentials = <<>>
    /\ all_domains = {}
    /\ collection = [pc |-> "idle", should_stop |-> FALSE, yielded |-> {}]

\* process_multiple_domains(ix, domains, ..., should_stop): the accumulators
\* are created and one task per domain is submitted to the pool.
process_multiple_domains(domains, stop_callback) ==
    /\ collection.pc = "idle"
    /\ futures' = [i \in 1..Len(domains) |-> Future(domains[i])]
    /\ all_credentials' = <<>>
    /\ all_domains' = {}
    /\ collection' = [pc |-> "as_completed", should_stop |-> stop_callback, yielded |-> {}]
    /\ UNCHANGED notFanIn

\* process_single_domain_task returns: an empty domain before any search,
\* else the credentials found with success True, or an empty list with
\* success False when nothing was found or the search failed.
process_single_domain_task(i, found) ==
    /\ i \in DOMAIN futures
    /\ futures[i].state = "running"
    /\ LET domain == Strip(futures[i].domain)
       IN futures' = [futures EXCEPT ![i].state = "returned", ![i].result =
                        IF domain = "" THEN TaskResult(domain, <<>>, FALSE)
                        ELSE IF found # <<>> THEN TaskResult(domain, found, TRUE)
                        ELSE TaskResult(domain, <<>>, FALSE)]
    /\ UNCHANGED <<all_credentials, all_domains, collection>>
    /\ UNCHANGED notFanIn

\* An exception in the task's try block: re-raised when a stop-check
\* callback was given, else the task returns (domain, [], False).
task_raises(i) ==
    /\ i \in DOMAIN futures
    /\ futures[i].state = "running"
    /\ Strip(futures[i].domain) # ""
    /\ futures' = [futures EXCEPT ![i] =
                     IF collection.should_stop
                     THEN [@ EXCEPT !.state = "raised"]
                     ELSE [@ EXCEPT !.state = "returned",
                                    !.result = TaskResult(Strip(@.domain), <<>>, FALSE)]]
    /\ UNCHANGED <<all_credentials, all_domains, collection>>
    /\ UNCHANGED notFanIn

\* for future in as_completed(future_to_domain): one finished future that
\* has not been yielded yet; future.result() returns the task's tuple or
\* re-raises its exception, which leaves the loop.
as_completed(i) ==
    /\ collection.pc = "as_completed"
    /\ i \in DOMAIN futures
    /\ i \notin collection.yielded
    /\ futures[i].state # "running"
    /\ LET r == futures[i].result
           merged == futures[i].state = "returned" /\ r.success /\ r.credentials # <<>>
       IN /\ all_credentials' = IF merged THEN all_credentials \o r.credentials
                                ELSE all_credentials
          /\ all_domains' = IF merged THEN all_domains \cup {r.domain} ELSE all_domains
    /\ collection' = [collection EXCEPT !.yielded = @ \cup {i},
                                        !.pc = IF futures[i].state = "raised"
                                               THEN "raising" ELSE @]
    /\ UNCHANGED futures
    /\ UNCHANGED notFanIn

\* The exception leaves the with block: executor.shutdown(wait=True) returns
\* once no task is running, then the exception leaves the function.
executor_exit_raising ==
    /\ collection.pc = "raising"
    /\ \A i \in DOMAIN futures : futures[i].state # "running"
    /\ collection' = [collection EXCEPT !.pc = "raised"]
    /\ UNCHANGED <<futures, all_credentials, all_domains>>
    /\ UNCHANGED notFanIn

\* The function returns without waiting for the loop to yield every future.
collection_return_Early ==
    /\ collection.pc = "as_completed"
    /\ collection' = [collection EXCEPT !.pc = "returned"]
    /\ UNCHANGED <<futures, all_credentials, all_domains>>
    /\ UNCHANGED notFanIn

\* The loop has yielded every future: return all_credentials, list(all_domains)
collection_return ==
    /\ collection.pc = "as_completed"
    /\ collection.yielded = DOMAIN futures
    /\ collection' = [collection EXCEPT !.pc = "returned"]
    /\ UNCHANGED <<futures, all_credentials, all_domains>>
    /\ UNCHANGED notFanIn

NextFanIn ==
    \/ \E domains \in DomainLists, stop_callback \in BOOLEAN :
         process_multiple_domains(domains, stop_callback)
    \/ \E i \in 1..MaxTasks, found \in Found : process_single_domain_task(i, found)
    \/ \E i \in 1..MaxTasks : task_raises(i)
    \/ \E i \in 1..MaxTasks : as_completed(i)
    \/ executor_exit_raising
    \/ collection_return

\* ---- the specification ---------------------------------------------------
Next ==
    \/ \E t \in JobTypes, a \in BOOLEAN : create_scan(t, a)
    \/ persist_rq_job_id
    \/ cancel_job
    \/ pause_job
    \/ resume_job
    \/ \E i \in Invocations : Worker_Start(i)
    \/ \E i \in Invocations : Worker_EnterCollecting(i)
    \/ \E i \in Invocations : Worker_EntryCheck(i)
    \/ \E i \in Invocations : Worker_EntryCancel(i)
    \/ \E i \in Invocations : Worker_EntryPause(i)
    \/ \E i \in Invocations : should_stop(i)
    \/ \E i \in Invocations : Task_Finish(i)
    \/ \E i \in Invocations : Task_Error(i)
    \/ \E i \in Invocations : Worker_EndCollecting(i)
    \/ \E i \in Invocations : Worker_Parse(i)
    \/ \E i \in Invocations : Parse_Raises(i)
    \/ \E i \in Invocations : Worker_Upsert(i)
    \/ \E i \in Invocations : Upsert_Raises(i)
    \/ \E i \in Invocations : Worker_Alert(i)
    \/ \E i \in Invocations : Alert_Raises(i)

Init ==
    JobInit /\ DedupInit /\ ParserInit /\ DomainInit /\ ThrottleInit /\ FanInInit

Spec == Init /\ [][Next]_vars

\* The workers of MaxJobs jobs upserting into the shared store.
SpecDedup == Init /\ [][NextDedup]_vars

\* The parser alone.
SpecParser == Init /\ [][NextParser]_vars

\* The domain functions alone.
SpecDomain == Init /\ [][NextDomain]_vars

\* The stop-check callback alone.
SpecThrottle == Init /\ [][NextThrottle]_vars

\* One multi-domain collection alone.
SpecFanIn == Init /\ [][NextFanIn]_vars

\* The steps of worker invocation i.
Worker(i) ==
    \/ Worker_Start(i)
    \/ Worker_EnterCollecting(i)
    \/ Worker_EntryCheck(i)
    \/ Worker_EntryCancel(i)
    \/ Worker_EntryPause(i)
    \/ should_stop(i)
    \/ Task_Finish(i)
    \/ Task_Error(i)
    \/ Worker_EndCollecting(i)
    \/ Worker_Parse(i)
    \/ Parse_Raises(i)
    \/ Worker_Upsert(i)
    \/ Upsert_Raises(i)
    \/ Worker_Alert(i)
    \/ Alert_Raises(i)

\* The job state machine in which a cancel request that set cancel_requested
\* is the last request made.
NextLastCancel ==
    \/ ~job.cancel_requested /\ \E t \in JobTypes, a \in BOOLEAN : create_scan(t, a)
    \/ ~job.cancel_requested /\ cancel_job
    \/ ~job.cancel_requested /\ pause_job
    \/ ~job.cancel_requested /\ resume_job
    \/ persist_rq_job_id
    \/ \E i \in Invocations : Worker(i)

\* RQ runs every queued work unit, a worker function that was called goes on
\* to its end, and a route that has begun finishes.
SpecLastCancel ==
    /\ Init
    /\ [][NextLastCancel]_vars
    /\ WF_vars(persist_rq_job_id)
    /\ \A i \in Invocations : WF_vars(Worker(i))

\* ---- properties ----------------------------------------------------------
\* C1: when the stop-check callback of a single or multi-domain scan raises
\* the cancel signal, the invocation ends with the job cancelled and
\* completed_at set, has never assigned parsing or upserting, and adds no
\* JobCredential row.
C1_CancelSignalEndsCancelled ==
    [][\A i \in Invocations :
        (i \in Executing /\ inv'[i].pc \in {"done", "crashed"} /\ "cancel" \in inv[i].sigs)
        => /\ job'.status = "cancelled"
           /\ job'.completed_at
           /\ inv[i].wrote \cap {"parsing", "upserting"} = {}
           /\ job'.rows = job.rows]_vars

\* C2: an invocation whose callback raised a stop signal ends with the job
\* cancelled (cancel signal) or paused (pause signal), never failed, and
\* writes no error_message.
C2_StopSignalNeverFails ==
    [][\A i \in Invocations :
        (i \in Executing /\ inv'[i].pc \in {"done", "crashed"} /\ inv[i].sigs # {})
        => /\ job'.status \in {"cancelled", "paused"}
           /\ "cancel" \in inv[i].sigs => job'.status = "cancelled"
           /\ inv[i].sigs = {"pause"} => job'.status = "paused"
           /\ job'.error_message = job.error_message]_vars

\* C3: completed, failed and cancelled are terminal: no step changes the
\* status of a job that is in one of them.
C3_TerminalIsFinal ==
    [][job.status \in terminal => job'.status = job.status]_vars

\* C4: at most one worker invocation of the job executes at any time.
C4_OneInvocationAtATime == Cardinality(Executing) <= 1

\* C5: when cancel_requested or pause_requested is set in the row at the
\* boundary check that ends collecting, the worker does not enter parsing:
\* it commits cancelled with completed_at (cancel first), else paused, and
\* adds no JobCredential row.
C5_BoundaryCheckSeesFlags ==
    [][\A i \in Invocations :
        (/\ inv[i].pc = "collect" /\ inv[i].running = 0 /\ inv[i].firstExc = "none"
         /\ inv'[i].pc # "collect"
         /\ job.cancel_requested \/ job.pause_requested)
        => /\ inv'[i].pc = "done"
           /\ job'.status = IF job.cancel_requested THEN "cancelled" ELSE "paused"
           /\ job.cancel_requested => job'.completed_at
           /\ job'.rows = job.rows]_vars

\* C6: an invocation that has set status parsing returns having committed
\* completed or failed, and never commits cancelled or paused.
C6_ParsingRunsToCompletedOrFailed ==
    [][\A i \in Invocations :
        (i \in Executing /\ "parsing" \in inv[i].wrote)
        => /\ job'.status \in {"cancelled", "paused"} => job'.status = job.status
           /\ inv'[i].pc \in {"done", "crashed"}
              => /\ inv'[i].pc = "done"
                 /\ "completed" \in inv[i].wrote \/ job'.status \in {"completed", "failed"}]_vars

\* C7: a cancel or pause request that finds the job parsing or upserting,
\* and a pause request that finds it queued, is answered 409 and changes
\* nothing: not the status, the flags, completed_at, nor the queue.
C7_RejectedRequestChangesNothing ==
    [][((cancel_job /\ job.status \in non_cancellable)
         \/ (pause_job /\ job.status \in non_pausable))
       => (resp'.code = 409 /\ job' = job /\ queue' = queue /\ inv' = inv)]_vars

\* A cancel request was rejected while the job was parsing or upserting.
C7_Witness == resp = Response("cancel", 409) /\ job.status \in non_cancellable

\* C8: an exception other than the stop signals that reaches the worker in
\* collecting, parsing or upserting leaves the job failed with error_message and
\* completed_at set, and enqueues nothing.
C8_ExceptionMarksFailed ==
    [][\A i \in Invocations :
        (\/ Parse_Raises(i)
         \/ Upsert_Raises(i)
         \/ (inv[i].pc = "collect" /\ inv[i].running = 0 /\ inv[i].firstExc = "error"
             /\ inv'[i].pc # "collect"))
        => /\ job'.status = "failed"
           /\ job'.error_message
           /\ job'.completed_at
           /\ queue' = queue]_vars

\* C9: resuming a paused job of any type clears pause_requested, sets status
\* collecting and enqueues exactly one new invocation.
C9_ResumeEnqueuesOnce ==
    [][(resume_job /\ job.status = "paused")
       => /\ ~job'.pause_requested
          /\ job'.status = "collecting"
          /\ queue \subseteq queue'
          /\ Cardinality(queue' \ queue) = 1]_vars

C11_SequentialUpsertsCountOnce ==
    ~overlapped =>
    \A t \in Triples :
        LET h == upserts[t] IN
        Len(h) > 0 =>
            /\ credentials[t].id # 0
            /\ credentials[t].seen_count = Len(h)
            /\ credentials[t].first_seen = h[1].ts
            /\ credentials[t].last_seen = h[Len(h)].ts
            /\ h[1].result = "new"
            /\ \A n \in 2..Len(h) : h[n].result = "duplicate"

\* C12: in every state, also while workers of different jobs upsert
\* concurrently, seen_count of a Credential row is the number of upsert
\* calls completed for its triple, and last_seen >= first_seen.
C12_SeenCountCountsUpserts ==
    \A t \in Triples :
        LET h == upserts[t] IN
        /\ credentials[t].last_seen >= credentials[t].first_seen
        /\ (\A n \in 1..Len(h) : h[n].result # "raised")
           => credentials[t].seen_count = Len(h)

\* C13: bulk_upsert returns new_count = the complete triples of the batch
\* that were absent from the store when reached and duplicate_count = those
\* that were present; their sum is the number of complete triples of the
\* batch, incomplete ones being counted in neither.
C13_BulkCounts ==
    [][\A j \in Jobs :
        (bulk[j].pc \in {"loop", "write"} /\ bulk'[j].pc \in {"returned", "raised"})
        => /\ bulk'[j].pc = "returned"
           /\ bulk'[j].new_count = bulk'[j].absent
           /\ bulk'[j].duplicate_count = bulk'[j].present
           /\ bulk'[j].new_count + bulk'[j].duplicate_count
              = Cardinality({n \in 1..Len(bulk[j].credentials) :
                               IsComplete(bulk[j].credentials[n])})]_vars

\* C14: when the upsert of one credential of a batch raises, the credential
\* is skipped and the loop goes on with the rest of the batch.
C14_RowErrorIsSkipped ==
    [][\A j \in Jobs :
        (bulk[j].pc = "write" /\ bulk'[j].pc # "write")
        => /\ bulk'[j].pc = "loop"
           /\ bulk'[j].k = bulk[j].k]_vars

\* C15: there is at most one JobCredential row per (job_id, credential_id),
\* its is_new is true exactly when an upsert of that job created the
\* Credential row, and no step changes or removes a JobCredential row.
C15_JobCredentialOncePerPair ==
    [][/\ \A r \in BagToSet(job_credentials') :
            /\ CopiesIn(r, job_credentials') = 1
            /\ \A q \in BagToSet(job_credentials') :
                 (q.job_id = r.job_id /\ q.credential_id = r.credential_id) => q = r
            /\ r.is_new <=> \E t \in Triples :
                              /\ credentials'[t].id = r.credential_id
                              /\ \E n \in 1..Len(upserts'[t]) :
                                   /\ upserts'[t][n].job = r.job_id
                                   /\ upserts'[t][n].result = "new"
       /\ job_credentials \sqsubseteq job_credentials']_vars

\* A job has the row of a credential it created (is_new true), another job
\* the row of the same credential (is_new false), and a second upsert of a
\* pair that has its row was refused.
C15_Witness ==
    /\ \E r, q \in BagToSet(job_credentials) :
         r.credential_id = q.credential_id /\ r.is_new /\ ~q.is_new /\ r.job_id \in Jobs
    /\ \E j \in Jobs : bulk[j].pc = "raised"

\* ---- the parser ------------------------------------------------------------
Triple(p) == <<p.url, p.username, p.password>>

\* C16: within one parse_credentials_from_list call no two emitted records
\* have the same (url, username, password); every emitted record carries the
\* 1-based number of the first line whose parse is its triple, so no later
\* line producing that triple is emitted; and the count returned is the
\* number of emitted records.
C16_EachTripleEmittedOnce ==
    /\ \A a, b \in 1..Len(parsed_credentials) :
           Triple(parsed_credentials[a]) = Triple(parsed_credentials[b]) => a = b
    /\ \A a \in 1..Len(parsed_credentials) :
           LET e == parsed_credentials[a]
           IN /\ e.line_num \in 1..line_num
              /\ Parse[credential_lines[e.line_num]] # None
              /\ Triple(Parse[credential_lines[e.line_num]]) = Triple(e)
              /\ \A n \in 1..(e.line_num - 1) :
                     \/ Parse[credential_lines[n]] = None
                     \/ Triple(Parse[credential_lines[n]]) # Triple(e)
    /\ parsing = "returned" => unique_count = Len(parsed_credentials)

\* A returned call whose second line produced the triple of its first line
\* by another pattern, and emitted one record.
C16_Witness ==
    /\ parsing = "returned"
    /\ credential_lines = <<"http://x.com alice@x.com:secret", "http://x.com alice@x.com secret">>
    /\ unique_count = 1
    /\ parsed_credentials[1].line_num = 1

\* C17 as stated: for every line, stripped and without its leading line
\* number, the parse is the result of the first pattern in the order 1..20
\* whose matcher and acceptance conditions hold; it is None when no pattern
\* holds; and the example line is parsed by pattern 1.
C17_FirstPatternOfAnyLine ==
    (parsing # "idle" /\ line_num > 0) =>
        LET raw == credential_lines[line_num]
            line == StripLineNumber(Strip(raw))
        IN /\ parsed = IF FirstFiring[raw] = 0 THEN None
                       ELSE PatternResult(FirstFiring[raw], line)
           /\ raw = "http://x.com alice@x.com:secret"
                  => parsed = Hit(1, "http://x.com", "alice@x.com", "secret")

\* C17 amended: the same for every line that passes the pre-filters; a line
\* the pre-filters reject (empty, '#' comment, noise marker) is None
\* whatever patterns it matches.
C17_FirstPatternWins ==
    (parsing # "idle" /\ line_num > 0) =>
        LET raw == credential_lines[line_num]
            line == StripLineNumber(Strip(raw))
        IN IF Rejected(Strip(raw)) THEN parsed = None
           ELSE /\ parsed = IF FirstFiring[raw] = 0 THEN None
                            ELSE PatternResult(FirstFiring[raw], line)
                /\ raw = "http://x.com alice@x.com:secret"
                       => parsed = Hit(1, "http://x.com", "alice@x.com", "secret")

\* The example line parsed by pattern 1 although pattern 14 holds for it too.
C17_Witness ==
    /\ parsing # "idle" /\ line_num > 0
    /\ credential_lines[line_num] = "http://x.com alice@x.com:secret"
    /\ parsed.pattern_id = 1
    /\ FirstFiring[credential_lines[line_num]] = 1
    /\ Fires(14, credential_lines[line_num])

C19_BestDomainIsFirstValid ==
    LET nd == normalize_domain(lookup.domain)
        nu == normalize_domain(lookup.url)
        ne == normalize_domain(After(lookup.username, "@"))
        cand == find_candidate(Lower(lookup.domain \o " " \o lookup.url \o " " \o lookup.username))
    IN /\ lookup.fn = "best_domain_from" =>
              lookup.result =
                  IF nd # "other" THEN nd
                  ELSE IF lookup.url # "" /\ nu # "other" THEN nu
                  ELSE IF Contains(lookup.username, "@") /\ ne # "other" THEN ne
                  ELSE IF cand # "" /\ domain_re(cand) THEN cand
                  ELSE "other"
       /\ ( /\ lookup.fn = "upsert_credential"
            /\ extract_domain(lookup.url) = "other"
            /\ Contains(lookup.username, "@")
            /\ ne # "other" ) => lookup.result = ne

\* C30: normalize_domain is idempotent: normalizing its result gives the
\* result again, also for values with repeated www. prefixes, ports or paths.
C30_NormalizeIsIdempotent ==
    lookup.fn = "normalize_domain" => normalize_domain(lookup.result) = lookup.result

\* ---- the stop-check callback -----------------------------------------------
\* C20: any two reads of the job row by the stop-check callback of one
\* invocation are at least 0.5 s of monotonic time apart, whichever pool
\* threads made the calls.
C20_ReadsHalfASecondApart ==
    \A i, j \in 1..Len(reads) :
        i < j => \/ reads[j] - reads[i] >= Interval
                 \/ reads[i] - reads[j] >= Interval

\* ---- the multi-domain collection ------------------------------------------
Occurrences(seq, c) == Cardinality({k \in 1..Len(seq) : seq[k] = c})

\* The occurrences of c in the credentials of the successful tasks 1..n.
RECURSIVE InSuccessful(_, _)
InSuccessful(c, n) ==
    IF n = 0 THEN 0
    ELSE InSuccessful(c, n - 1)
         + (IF futures[n].result.success
            THEN Occurrences(futures[n].result.credentials, c) ELSE 0)

\* C21: a collection in which no task raised returns only when every
\* submitted task has finished; the returned list holds every credential of
\* every successful task exactly once (as often as the tasks returned it)
\* and the returned domains are exactly those of the tasks that returned
\* credentials, whatever the order of completion.
C21_FanInIsComplete ==
    collection.pc = "returned" =>
        /\ \A i \in DOMAIN futures : futures[i].state = "returned"
        /\ \A c \in {"l1", "l2", "l3"} :
             Occurrences(all_credentials, c) = InSuccessful(c, Len(futures))
        /\ all_domains = {futures[i].result.domain :
                            i \in {k \in DOMAIN futures :
                                     futures[k].result.credentials # <<>>}}

\* Two tasks found credentials and the second completed first.
C21_Witness ==
    /\ collection.pc = "returned"
    /\ Len(futures) = 2
    /\ futures[1].result.credentials = <<"l1">>
    /\ futures[2].result.credentials = <<"l2", "l3">>
    /\ all_credentials = <<"l2", "l3", "l1">>
    /\ all_domains = {"a.com", "b.org"}

\* ---- the lifecycle of a job ------------------------------------------------
\* C22: the status of a job becomes parsing only from collecting, upserting
\* only from parsing and completed only from upserting, in every step of the
\* worker and of the cancel, pause and resume routes.
C22_LifecycleOrder ==
    [][/\ (job'.status = "parsing" /\ job.status # "parsing")
          => job.status = "collecting"
       /\ (job'.status = "upserting" /\ job.status # "upserting")
          => job.status = "parsing"
       /\ (job'.status = "completed" /\ job.status # "completed")
          => job.status = "upserting"]_vars

\* C23: a step that changes the status to paused, of the pause route or of
\* a worker, starts from status collecting, and a paused job has no
\* completed_at.
C23_PausedOnlyFromCollecting ==
    [][/\ (job'.status = "paused" /\ job.status # "paused")
          => job.status = "collecting"
       /\ job'.status = "paused" => ~job'.completed_at]_vars

\* C24: a resume request answered with an error (409 or 501) leaves status,
\* pause_requested and rq_job_id as they were, and does not leave the job
\* collecting with no invocation queued or executing.
C24_FailedResumeChangesNothing ==
    [][(resume_job /\ resp'.code \in {409, 501})
       => /\ job'.status = job.status
          /\ job'.pause_requested = job.pause_requested
          /\ job'.rq_job_id = job.rq_job_id
          /\ job'.status = "collecting"
             => \E i \in Invocations :
                  inv'[i].pc \notin {"none", "removed", "done", "crashed"}]_vars

\* C25: once the cancel route has set cancel_requested (whatever the status
\* of the job was, paused included) and no request follows, the job
\* eventually has a terminal status.
C25_CancelledJobEnds == job.cancel_requested ~> job.status \in terminal

\* C26: once the cancel route has set the status to cancelling, the job is
\* never completed and no JobCredential row is created for it.
C26_CancellingNeverCompletes ==
    [][/\ job'.was_cancelling => job'.status # "completed"
       /\ job.was_cancelling => job'.rows = job.rows]_vars

\* ---- concurrent upserts ------------------------------------------------------
\* C27: when the workers of two different jobs have both upserted a triple
\* that was not in the store, there is one Credential row for it with
\* seen_count = 2, one job has its JobCredential row with is_new true and
\* the other with is_new false, and neither bulk upsert ended by an exception
\* (which would fail the job).
C27_ConcurrentUpsertOfNewTriple ==
    \A t \in Triples \ {Seeded} :
        LET h == upserts[t] IN
        (Len(h) = 2 /\ h[1].job # h[2].job) =>
            /\ credentials[t].id # 0
            /\ credentials[t].seen_count = 2
            /\ \E a, b \in Jobs :
                 /\ a # b
                 /\ JobCredential(a, credentials[t].id, TRUE) \in BagToSet(job_credentials)
                 /\ JobCredential(b, credentials[t].id, FALSE) \in BagToSet(job_credentials)
            /\ \A j \in Jobs : bulk[j].pc # "raised"

\* ---- duplicate suppression ---------------------------------------------------
\* C28: a line of the batch that parses is left out of the output only when an
\* earlier line of the batch parsed to the same (url, username, password);
\* lines whose triples differ in a field are both emitted, also when a
\* username or password contains ':'.
C28_OnlyIdenticalTriplesSuppressed ==
    \A n \in 1..line_num :
        LET p == Parse[credential_lines[n]] IN
        p # None =>
            \/ \E k \in 1..Len(parsed_credentials) : parsed_credentials[k].line_num = n
            \/ \E m \in 1..(n - 1) :
                 /\ Parse[credential_lines[m]] # None
                 /\ Triple(Parse[credential_lines[m]]) = Triple(p)

\* ---- the totals of a job ------------------------------------------------------
\* The four counters of the ScanJob row.
Totals(j) == <<j.total_raw, j.total_parsed, j.total_new, j.total_duplicates>>

====
